---- MODULE Spec2Model ----
(***************************************************************************)
(* Model of the cosanet exporter's namespace-serialized collection core:   *)
(* the worker loop of main (src/main.go), CosanetCollector.Collect and     *)
(* CosanetCollector.CollectFromMainThread (internal/collector).            *)
(*                                                                         *)
(* Goroutines of the program that appear as processes of the model:        *)
(*   - the worker: the main goroutine, locked to its OS thread, running    *)
(*     `for collectRequest := range collectRequestChan { ... }`;           *)
(*   - the helper: the goroutine started on every cache miss that appends  *)
(*     the samples received on metricsChan to metricTemp;                  *)
(*   - the callers: goroutines of the scrape endpoint running Collect,     *)
(*     each with the consumer of the sink it passed.                       *)
(* All channels of the program are unbuffered: a send is a rendezvous and  *)
(* is modelled as one action that moves both parties.                      *)
(* The clock matters only where it is read (time.Now, time.Since): `now`   *)
(* is the latest reading and every read returns a value not before it.     *)
(***************************************************************************)
EXTENDS Integers, Sequences, FiniteSets, TLC

(* ------------------------------ bounds -------------------------------- *)
NumCallers == 2          \* concurrent Collect callers
MaxCalls == 3            \* Collect calls made in a run, over all callers
MaxTime == 2             \* clock readings range over 0..MaxTime
MaxSandboxes == 2        \* ready sandboxes the runtime can list
MaxBlockSamples == 1     \* samples one collection block can emit

MaxPodUIDs == 1          \* pods (UIDs) the resolver is asked about
MaxOwnerRefs == 2        \* owner references one pod carries
MaxCapacity == 1         \* the capacity options range over 0..MaxCapacity (0: the default)
MaxInformerPods == 2     \* pods (UIDs) the informer reports events of

MaxLineItems == 3        \* tokens and blanks of one line given to the pair parser
MaxLines == 4            \* lines of one input of the whole-input parser
MaxLineChars == 5        \* characters of one line given to the line parser of snmp6
MaxSockLines == 3        \* lines of a socket table after its title
MaxProtos == 2           \* socket protocols in the collect list
MaxFairCalls == 2        \* Collect calls made in a run under fair scheduling

(* The -cache-duration flag, in clock ticks. *)
CacheDuration == 1

(* The default capacities of the resolver's caches (750 and 500), scaled   *)
(* down to the model.                                                      *)
DefaultParentCapacity == 3
DefaultPodCapacity == 2

Callers == 1..NumCallers
Pods == 1..MaxSandboxes

(* Network namespaces: the initial one and one per sandbox. *)
InitNS == 0
NsOfPod(p) == p

(* The label of the host pseudo-sandbox, PodInfo{Namespace: "HOST", ...}. *)
HOST == 0

(* No caller / the invalid handle / no call yet. *)
None == 0 - 1

(* The zero time.Time that cacheTimestamp starts with, and the saturated   *)
(* duration time.Since returns for it.                                     *)
ZeroTime == 0 - 1
MaxDuration == MaxTime + CacheDuration + 1

VARIABLES
  hostEnabled,     \* options.CollectHost.Enabled
  podFilter,       \* the sandboxes whose "<namespace>/<name>" matches c.podFilter
  now,             \* the latest reading of the clock
  alive,           \* FALSE once the process has terminated
  wpc,             \* position of the worker in its loop
  cur,             \* collectRequest: the caller whose request the worker holds
  cacheTimestamp,  \* main's cacheTimestamp
  metricsCache,    \* main's metricsCache
  ri,              \* index of the replay loop over metricsCache
  lockCount,       \* runtime.LockOSThread nesting count of the worker goroutine
  curNS,           \* network namespace of the worker's thread
  origns,          \* CollectFromMainThread's origns handle (None: the invalid handle)
  origOpen,        \* whether the origns handle is open
  infos,           \* the sandboxes listSandboxes returned
  idx,             \* index of the loop over infos
  nsHandle,        \* the sandbox handle of the current iteration (None: none)
  openSb,          \* sandboxes whose namespace handle is open
  blockPod,        \* the PodInfo the running collection block was called with
  blockLeft,       \* samples the running collection block has still to emit
  blockK,          \* samples the running collection block has emitted
  hpc,             \* position of the helper goroutine
  pending,         \* the sample the helper received and has not appended yet
  metricTemp,      \* main's metricTemp of the current miss
  chanClosed,      \* whether metricsChan is closed
  cst,             \* position of each caller in Collect
  calls,           \* Collect calls made so far
  got,             \* samples each caller's sink received during its current call
  sinkOpen,        \* whether the consumer of each caller's sink is still receiving
  (* history: facts about the run, written by the actions, read by no guard *)
  lastCall,        \* the clock reading at which the latest request was examined (None: none yet)
  maxGap,          \* the longest interval between two consecutively examined requests
  nColl,           \* the number of collections (CollectFromMainThread calls) started
  nInstalled,      \* the number of collections whose vector was installed in the cache
  firstEnd,        \* the cacheTimestamp the first collection installed
  firstLen,        \* the length of the vector the first collection installed
  emitted,         \* the samples the current collection sent into its sink, in order
  blockLog,        \* the PodInfos the current collection ran its collection block for
  nAccepted,       \* the number of requests the worker received
  acceptNo,        \* for each caller, the arrival number of its current request (0: not received)
  nAcked,          \* the number of acknowledgements the worker sent
  served,          \* how each caller's current request was answered: "none", "miss", "hit"
  causeFed,        \* the samples fed to the scrape that caused the latest collection
  restoreFailed,   \* whether netns.Set(origns) has failed
  exitWhy,         \* why the process terminated ("" while alive)
  (* the controller resolver *)
  rkind,           \* what NewResolver returned: "none" (not called yet), "active", "noop"
  ropts,           \* the ResolverOptions NewResolver was called with
  cluster,         \* the owner references of the cluster's ReplicaSet and Job objects
  parentCache,     \* resolver.parentCache: <<key, ref>> entries, least recently used first
  podCache,        \* resolver.podCache: <<key, ref>> entries, least recently used first
  rpc,             \* "handler" while an informer handler is about to call ResolvePodControllerRef
  lastOp,          \* history: the latest call of the resolver and what it returned
  (* the parsers of /proc/net *)
  plines,          \* the lines the parser is given
  ppos,            \* parse2LFromScanner: the line the scanner returns next
  presult,         \* parse2LFromScanner: result
  pout,            \* what the parser returned
  ppc,             \* position of the parser: "idle", "render", "couple", "scan", "v6scan",
                   \* "socktitle", "socktab", "done", "failed", "panicked"
  pmap,            \* the CounterMap the input was written from, and in which format
  (* a resolution of the resolver in progress *)
  inflight,        \* the ResolvePodControllerRef call between its lookup and its store
  (* the socket statistics of one collection block *)
  sockprotoToCollect, \* the protocols of options.SockProto.Protos
  spc,             \* position of the block: "idle", "loop", "v4", "v6", "emit4", "emit6",
                   \* "procnet", "returned"
  sockproto,       \* index of the loop over the socket protocols
  statsv4,         \* collectAndEmitSockStats: statsv4
  statsv6,         \* collectAndEmitSockStats: statsv6
  sockOut,         \* the samples the block has sent into its sink
  sockLog          \* history: the tables each protocol was given and how their reads ended

cfgVars == <<hostEnabled, podFilter>>
cacheVars == <<cacheTimestamp, metricsCache>>
nsVars == <<curNS, origns, origOpen, infos, idx, nsHandle, openSb>>
blockVars == <<blockPod, blockLeft, blockK>>
helperVars == <<hpc, pending, metricTemp, chanClosed>>
callerVars == <<cst, calls, got, sinkOpen>>
callHist == <<lastCall, maxGap>>
collHist == <<nColl, nInstalled, firstEnd, firstLen>>
reqHist == <<nAccepted, acceptNo, nAcked>>
exitHist == <<restoreFailed, exitWhy>>
workerVars == <<cfgVars, now, alive, wpc, cur, cacheVars, ri, lockCount, nsVars, blockVars,
                helperVars, callerVars, callHist, collHist, emitted, blockLog, reqHist,
                served, causeFed, exitHist>>

(* The controller resolver (internal/controller_resolver), which main and  *)
(* the collector never call.                                               *)
resolverVars == <<rkind, ropts, cluster, parentCache, podCache, rpc, lastOp, inflight>>

(* The state of the packages that no step of the worker, the helper or the *)
(* callers touches.                                                        *)
(* The parsers of /proc/net (internal/procnet_2l_parser,                   *)
(* internal/procnet_v6_parser and internal/netstat) at work on one input.  *)
sockVars == <<sockprotoToCollect, spc, sockproto, statsv4, statsv6, sockOut, sockLog>>

parserVars == <<plines, ppos, presult, pout, ppc, pmap, sockVars>>

libVars == <<resolverVars, parserVars>>

vars == <<workerVars, libVars>>

(* ------------------------------ helpers ------------------------------- *)

(* The lists of ready sandboxes the container runtime returns: the first  *)
(* n sandboxes of the node, for every n up to MaxSandboxes.                *)
SandboxLists == {[i \in 1..n |-> i] : n \in 0..MaxSandboxes}

(* The values a read of the clock can return. *)
ClockReadings == now..MaxTime

(* time.Since(t), the clock reading being `at`. *)
Since(t, at) == IF t = ZeroTime THEN MaxDuration ELSE at - t

(* A sample: the collection that produced it, the pod it is labelled with  *)
(* and its position in the block.                                          *)
Sample(g, p, k) == <<g, p, k>>

(* The label names every sample of a collection block is described with    *)
(* (dynamic_label_def in collectStatsInNETNS, labels in publishProcNet).    *)
(* The collector holds no controller resolver: the names are the same      *)
(* whether or not one is active in the process.                            *)
dynamic_label_def ==
  {"cosanet_node", "cosanet_pod", "cosanet_namespace", "cosanet_netnsname"}

(* ----------------------- controller resolver: data --------------------- *)

(* orphanSentinel *)
orphanSentinel == "ORPHAN"

(* The kinds an owner reference can name: the ones ResolvePodControllerRef *)
(* switches on, and one it does not list.                                  *)
OwnerKinds ==
  {"ReplicaSet", "Job", "StatefulSet", "DaemonSet", "Deployment", "CronJob", "Node", "Rollout"}

(* metav1.OwnerReference.  The object of a kind has one name, one UID and  *)
(* one api-version; Controller is FALSE for a nil or false controller flag. *)
OwnerRef(kind, ctrl) ==
  [UID |-> <<"uid", kind>>, APIVersion |-> <<"api", kind>>, Kind |-> kind,
   Name |-> <<"name", kind>>, Controller |-> ctrl]

(* The references a pod's list is made of: a controlling one of every kind *)
(* and one that does not control.                                          *)
OwnerRefs == {OwnerRef(k, TRUE) : k \in OwnerKinds} \cup {OwnerRef("ReplicaSet", FALSE)}

(* The sequences over S of length up to n. *)
SeqsUpTo(S, n) == UNION {[1..m -> S] : m \in 0..n}

(* The ownerReferences a pod can carry. *)
OwnerRefLists == SeqsUpTo(OwnerRefs, MaxOwnerRefs)

(* pod.GetNamespace() of the pods of the model. *)
PodNamespace == "default"

PodUIDs == 1..MaxPodUIDs

(* pod.Status.Phase, pod.Spec.NodeName ("" is unassigned) and the          *)
(* Nodename option ("" is not configured).                                 *)
Phases == {"Running", "Pending", "Succeeded"}
NodeNames == {"", "node-a", "node-b"}
NodenameOptions == {"", "node-a"}

(* ResolverOptions *)
ResolverOptions ==
  [ParentCacheCapacity : 0..MaxCapacity, PodCacheCapacity : 0..MaxCapacity,
   Nodename : NodenameOptions]

(* The clusters of the model, by the ownerReferences of their ReplicaSet   *)
(* and of their Job: in one the ReplicaSet is controlled by a Deployment   *)
(* (listed after a reference that does not control it) and the Job by a    *)
(* CronJob; in the other both are top-level.                               *)
Clusters ==
  {[ReplicaSet |-> <<OwnerRef("Node", FALSE), OwnerRef("Deployment", TRUE)>>,
    Job |-> <<OwnerRef("CronJob", TRUE)>>],
   [ReplicaSet |-> <<>>, Job |-> <<>>]}

(* The values of the resolver's variables while there is no resolver. *)
NoOptions == [ParentCacheCapacity |-> 0, PodCacheCapacity |-> 0, Nodename |-> ""]
NoCluster == [ReplicaSet |-> <<>>, Job |-> <<>>]
NoRef == [UID |-> "", APIVersion |-> "", Kind |-> "", Namespace |-> "", Name |-> ""]
(* No ResolvePodControllerRef call is between its lookup and its store. *)
NoCall == [uid |-> 0, ok |-> FALSE, res |-> NoRef, removed |-> FALSE]

NoOp == [op |-> "none", ctrl |-> "", via |-> "", res |-> NoRef, ok |-> FALSE,
         node |-> "", resolve |-> FALSE, podKept |-> TRUE]

(* --------------------------- two-line parser: data -------------------- *)

(* A token is the sequence of its characters; a line is the sequence of    *)
(* its tokens, the item Blank standing for white space in excess of the    *)
(* single space between two tokens.                                        *)
Blank == <<" ">>

(* The tokens of the model: a section prefix with its colon, a prefix      *)
(* without one, a name, and two integers.                                  *)
Tokens == {<<"T", ":">>, <<"I">>, <<"a">>, <<"7">>, <<"-", "3">>}

(* The lines the pair parser is tried on. *)
Lines2L == SeqsUpTo(Tokens \cup {Blank}, MaxLineItems)

(* The lines of the inputs of the whole-input parser: header and value     *)
(* lines of two sections, and the empty line.                              *)
ScanLines ==
  {<<<<"T", ":">>, <<"a">>>>, <<<<"T", ":">>, <<"7">>>>, <<<<"I">>, <<"a">>>>,
   <<<<"I">>, <<"-", "3">>>>, <<>>}

ScanInputs == SeqsUpTo(ScanLines, MaxLines)

(* What the parser returned: nothing yet. *)
NoOut == [err |-> FALSE, section |-> <<>>, counters |-> <<>>]

(* The input was written from no CounterMap. *)
NoMap == [format |-> "", map |-> <<>>]

(* The worker loop before its first request. *)
WorkerInit ==
  /\ hostEnabled \in BOOLEAN
  /\ podFilter \in SUBSET Pods
  /\ now = 0
  /\ alive = TRUE
  /\ wpc = "wait"
  /\ cur = None
  /\ cacheTimestamp = ZeroTime
  /\ metricsCache = <<>>
  /\ ri = 1
  /\ lockCount = 1
  /\ curNS = InitNS
  /\ origns = None
  /\ origOpen = FALSE
  /\ infos = <<>>
  /\ idx = 1
  /\ nsHandle = None
  /\ openSb = {}
  /\ blockPod = HOST
  /\ blockLeft = 0
  /\ blockK = 0
  /\ hpc = "none"
  /\ pending = <<>>
  /\ metricTemp = <<>>
  /\ chanClosed = FALSE
  /\ cst = [c \in Callers |-> "idle"]
  /\ calls = 0
  /\ got = [c \in Callers |-> <<>>]
  /\ sinkOpen = [c \in Callers |-> TRUE]
  /\ lastCall = None
  /\ maxGap = 0
  /\ nColl = 0
  /\ nInstalled = 0
  /\ firstEnd = ZeroTime
  /\ firstLen = 0
  /\ emitted = <<>>
  /\ blockLog = <<>>
  /\ nAccepted = 0
  /\ acceptNo = [c \in Callers |-> 0]
  /\ nAcked = 0
  /\ served = [c \in Callers |-> "none"]
  /\ causeFed = <<>>
  /\ restoreFailed = FALSE
  /\ exitWhy = ""

(* NewResolver is not called. *)
ResolverIdle ==
  /\ rkind = "none"
  /\ ropts = NoOptions
  /\ cluster = NoCluster
  /\ parentCache = <<>>
  /\ podCache = <<>>
  /\ rpc = "idle"
  /\ lastOp = NoOp
  /\ inflight = NoCall

(* collectStatsInNETNS is not called. *)
SockStatsIdle ==
  /\ sockprotoToCollect = {}
  /\ spc = "idle"
  /\ sockproto = 1
  /\ statsv4 = <<>>
  /\ statsv6 = <<>>
  /\ sockOut = {}
  /\ sockLog = <<>>

(* The parser is not called. *)
ParserIdle ==
  /\ plines = <<>>
  /\ ppos = 1
  /\ presult = <<>>
  /\ pout = NoOut
  /\ ppc = "idle"
  /\ pmap = NoMap
  /\ SockStatsIdle

(* The worker loop not started, with the collection of the host off and a  *)
(* filter that matches no sandbox.                                         *)
WorkerParked == WorkerInit /\ hostEnabled = FALSE /\ podFilter = {}

(* The exporter as main starts it. *)
Init == WorkerInit /\ ResolverIdle /\ ParserIdle

(* ------------------------------ callers ------------------------------- *)

(* Collect, up to the send on chanToFeed: doneCh is made and the caller   *)
(* blocks on `c.chanToFeed <- CollectRequest{...}`.  (The duration that    *)
(* Collect logs is not modelled.)                                          *)
CollectCall(c) ==
  /\ alive
  /\ cst[c] = "idle"
  /\ calls < MaxCalls
  /\ cst' = [cst EXCEPT ![c] = "send"]
  /\ calls' = calls + 1
  /\ sinkOpen' = [sinkOpen EXCEPT ![c] = TRUE]
  /\ UNCHANGED <<libVars, cfgVars, now, alive, wpc, cur, cacheVars, ri, lockCount, nsVars, blockVars,
                 helperVars, got, callHist, collHist, emitted, blockLog, reqHist, served,
                 causeFed, exitHist>>

(* Collect after `<-doneCh`: the duration is logged, the deferred          *)
(* close(doneCh) runs and Collect returns.                                 *)
CollectReturn(c) ==
  /\ alive
  /\ cst[c] = "acked"
  /\ cst' = [cst EXCEPT ![c] = "idle"]
  /\ got' = [got EXCEPT ![c] = <<>>]
  /\ served' = [served EXCEPT ![c] = "none"]
  /\ acceptNo' = [acceptNo EXCEPT ![c] = 0]
  /\ UNCHANGED <<libVars, cfgVars, now, alive, wpc, cur, cacheVars, ri, lockCount, nsVars, blockVars,
                 helperVars, calls, sinkOpen, callHist, collHist, emitted, blockLog,
                 nAccepted, nAcked, causeFed, exitHist>>

(* The consumer of the caller's sink stops receiving before the replay     *)
(* into the sink is over.                                                  *)
AbandonSink(c) ==
  /\ alive
  /\ cst[c] = "await"
  /\ cur = c
  /\ wpc = "replay"
  /\ sinkOpen[c]
  /\ sinkOpen' = [sinkOpen EXCEPT ![c] = FALSE]
  /\ UNCHANGED <<libVars, cfgVars, now, alive, wpc, cur, cacheVars, ri, lockCount, nsVars, blockVars,
                 helperVars, cst, calls, got, callHist, collHist, emitted, blockLog,
                 reqHist, served, causeFed, exitHist>>

(* ------------------------------- worker ------------------------------- *)

(* Variants of WorkerReceiving: a worker that also receives a request     *)
(* while it is busy with another one, anywhere or during the replay.       *)
WorkerReceivingWhileBusy == wpc # "exited"

WorkerReceivingWhileReplaying == wpc \in {"wait", "replay"}

(* The worker is at `range collectRequestChan`, ready to receive. *)
WorkerReceiving == wpc = "wait"

(* `for collectRequest := range collectRequestChan`: the rendezvous with   *)
(* one caller blocked in `c.chanToFeed <- CollectRequest{...}`.  The       *)
(* caller goes on to `<-doneCh`.                                           *)
ReceiveRequest(c) ==
  /\ alive
  /\ WorkerReceiving
  /\ cst[c] = "send"
  /\ wpc' = "check"
  /\ cur' = c
  /\ cst' = [cst EXCEPT ![c] = "await"]
  /\ nAccepted' = nAccepted + 1
  /\ acceptNo' = [acceptNo EXCEPT ![c] = nAccepted + 1]
  /\ UNCHANGED <<libVars, cfgVars, now, alive, cacheVars, ri, lockCount, nsVars, blockVars,
                 helperVars, calls, got, sinkOpen, callHist, collHist, emitted, blockLog,
                 nAcked, served, causeFed, exitHist>>

(* Variants of CacheMissed: `>=` for `>`, and the comparison inverted. *)
CacheMissedAtOrAfter(at) ==
  Since(cacheTimestamp, at) >= CacheDuration \/ Len(metricsCache) = 0

CacheMissedInverted(at) ==
  Since(cacheTimestamp, at) < CacheDuration \/ Len(metricsCache) = 0

(* Variant of CacheMissed: an empty vector does not force a collection. *)
CacheMissedExpiredOnly(at) == Since(cacheTimestamp, at) > CacheDuration

(* The condition of the `if` in the worker loop, the clock reading `at`. *)
CacheMissed(at) == Since(cacheTimestamp, at) > CacheDuration \/ Len(metricsCache) = 0

(* The request is examined at clock reading t. *)
Examined(t) ==
  /\ now' = t
  /\ lastCall' = t
  /\ maxGap' = IF lastCall # None /\ t - lastCall > maxGap THEN t - lastCall ELSE maxGap

(* Cache miss: metricsChan and metricTemp are made, the helper goroutine   *)
(* is started and CollectFromMainThread is called.  A helper of an earlier *)
(* miss that still owes its last append works on that miss's metricTemp,   *)
(* which nothing reads any more, so its state is not kept.                 *)
CacheMiss ==
  /\ alive
  /\ wpc = "check"
  /\ \E t \in ClockReadings : CacheMissed(t) /\ Examined(t)
  /\ wpc' = "cfmt"
  /\ metricTemp' = <<>>
  /\ pending' = <<>>
  /\ chanClosed' = FALSE
  /\ hpc' = "recv"
  /\ served' = [served EXCEPT ![cur] = "miss"]
  /\ nColl' = nColl + 1
  /\ emitted' = <<>>
  /\ blockLog' = <<>>
  /\ UNCHANGED <<libVars, cfgVars, alive, cur, cacheVars, ri, lockCount, nsVars, blockVars,
                 callerVars, nInstalled, firstEnd, firstLen, reqHist, causeFed, exitHist>>

(* Cache hit: the `if` body is skipped and the replay loop starts. *)
CacheHit ==
  /\ alive
  /\ wpc = "check"
  /\ \E t \in ClockReadings : ~CacheMissed(t) /\ Examined(t)
  /\ wpc' = "replay"
  /\ ri' = 1
  /\ served' = [served EXCEPT ![cur] = "hit"]
  /\ UNCHANGED <<libVars, cfgVars, alive, cur, cacheVars, lockCount, nsVars, blockVars,
                 helperVars, callerVars, collHist, emitted, blockLog, reqHist, causeFed,
                 exitHist>>

(* os.Exit(1), and an unrecovered panic: the whole process stops. *)
Exit(why) ==
  /\ alive' = FALSE
  /\ wpc' = "exited"
  /\ exitWhy' = why

(* --------------------- CollectFromMainThread -------------------------- *)

(* What no step of CollectFromMainThread changes. *)
outsideCollection == <<libVars, cfgVars, now, cur, cacheVars, ri, callerVars, callHist, collHist,
                       reqHist, served, causeFed>>

(* runtime.LockOSThread() and `origns, _ := netns.Get()`.  The error of    *)
(* netns.Get is dropped: on failure origns is the invalid handle.          *)
CFMT_GetOrigNS ==
  /\ alive
  /\ wpc = "cfmt"
  /\ wpc' = "list"
  /\ lockCount' = lockCount + 1
  /\ \/ origns' = curNS /\ origOpen' = TRUE
     \/ origns' = None /\ origOpen' = FALSE
  /\ UNCHANGED <<alive, curNS, infos, idx, nsHandle, openSb, blockVars, helperVars,
                 emitted, blockLog, exitHist>>
  /\ UNCHANGED outsideCollection

(* listSandboxes() returned the ready sandboxes. *)
CFMT_ListSandboxes ==
  /\ alive
  /\ wpc = "list"
  /\ wpc' = "loop"
  /\ infos' \in SandboxLists
  /\ idx' = 1
  /\ UNCHANGED <<alive, lockCount, curNS, origns, origOpen, nsHandle, openSb, blockVars,
                 helperVars, emitted, blockLog, exitHist>>
  /\ UNCHANGED outsideCollection

(* listSandboxes() failed: os.Exit(1). *)
CFMT_ListFail ==
  /\ alive
  /\ wpc = "list"
  /\ Exit("list")
  /\ UNCHANGED <<lockCount, nsVars, blockVars, helperVars, emitted, blockLog, restoreFailed>>
  /\ UNCHANGED outsideCollection

(* Variant of PodMatches: the filter lets every sandbox through. *)
PodMatchesAny(p) == TRUE

(* c.podFilter.Match(composedPodName), composedPodName being the           *)
(* "<namespace>/<name>" of sandbox p.                                      *)
PodMatches(p) == p \in podFilter

(* `if !c.podFilter.Match(composedPodName) { continue }` *)
CFMT_SkipFiltered ==
  /\ alive
  /\ wpc = "loop"
  /\ idx <= Len(infos)
  /\ ~PodMatches(infos[idx])
  /\ idx' = idx + 1
  /\ UNCHANGED <<alive, wpc, lockCount, curNS, origns, origOpen, infos, nsHandle, openSb,
                 blockVars, helperVars, emitted, blockLog, exitHist>>
  /\ UNCHANGED outsideCollection

(* netns.GetFromPid(info.PID) failed: continue. *)
CFMT_OpenFail ==
  /\ alive
  /\ wpc = "loop"
  /\ idx <= Len(infos)
  /\ PodMatches(infos[idx])
  /\ idx' = idx + 1
  /\ UNCHANGED <<alive, wpc, lockCount, curNS, origns, origOpen, infos, nsHandle, openSb,
                 blockVars, helperVars, emitted, blockLog, exitHist>>
  /\ UNCHANGED outsideCollection

(* netns.GetFromPid(info.PID) returned the sandbox's handle. *)
CFMT_OpenHandle ==
  /\ alive
  /\ wpc = "loop"
  /\ idx <= Len(infos)
  /\ PodMatches(infos[idx])
  /\ wpc' = "enter"
  /\ nsHandle' = infos[idx]
  /\ openSb' = openSb \cup {infos[idx]}
  /\ UNCHANGED <<alive, lockCount, curNS, origns, origOpen, infos, idx, blockVars,
                 helperVars, emitted, blockLog, exitHist>>
  /\ UNCHANGED outsideCollection

(* Variant of AfterClose: the handle is left open. *)
AfterCloseLeftOpen(h) == openSb

(* The open sandbox handles after `nsHandle.Close()`. *)
AfterClose(h) == openSb \ {h}

(* Variant of NsAfterFailedSet: the failed call has moved the thread. *)
NsAfterFailedSetMoved(h) == NsOfPod(h)

(* The namespace of the thread after a failed netns.Set(h): setns changes  *)
(* nothing when it fails.                                                  *)
NsAfterFailedSet(h) == curNS

(* netns.Set(nsHandle) failed: nsHandle.Close(); continue. *)
CFMT_EnterFail ==
  /\ alive
  /\ wpc = "enter"
  /\ wpc' = "loop"
  /\ curNS' = NsAfterFailedSet(nsHandle)
  /\ openSb' = AfterClose(nsHandle)
  /\ nsHandle' = None
  /\ idx' = idx + 1
  /\ UNCHANGED <<alive, lockCount, origns, origOpen, infos, blockVars, helperVars,
                 emitted, blockLog, exitHist>>
  /\ UNCHANGED outsideCollection

(* netns.Set(nsHandle) succeeded and c.collectStatsInNETNS(info, ch) is    *)
(* called.  How many samples the block emits depends on the options, on    *)
(* the metric filters and on the /proc/net files of the namespace.         *)
CFMT_EnterNS ==
  /\ alive
  /\ wpc = "enter"
  /\ wpc' = "block"
  /\ curNS' = NsOfPod(nsHandle)
  /\ blockPod' = infos[idx]
  /\ blockLeft' \in 0..MaxBlockSamples
  /\ blockK' = 0
  /\ blockLog' = Append(blockLog, infos[idx])
  /\ UNCHANGED <<alive, lockCount, origns, origOpen, infos, idx, nsHandle, openSb,
                 helperVars, emitted, exitHist>>
  /\ UNCHANGED outsideCollection

(* collectStatsInNETNS: one `ch <- prometheus.MustNewConstMetric(...)`.   *)
(* metricsChan is unbuffered, so the send completes when the helper, in    *)
(* its `for m := range metricsChan`, receives the sample.                  *)
Block_EmitSample ==
  /\ alive
  /\ wpc = "block"
  /\ blockLeft > 0
  /\ hpc = "recv"
  /\ hpc' = "append"
  /\ pending' = Sample(nColl, blockPod, blockK + 1)
  /\ emitted' = Append(emitted, Sample(nColl, blockPod, blockK + 1))
  /\ blockLeft' = blockLeft - 1
  /\ blockK' = blockK + 1
  /\ UNCHANGED <<alive, wpc, lockCount, nsVars, blockPod, metricTemp, chanClosed,
                 blockLog, exitHist>>
  /\ UNCHANGED outsideCollection

(* collectStatsInNETNS: conntrack.Dial failed (os.Exit(1)), or             *)
(* MustNewConstMetric panicked in the worker goroutine.                    *)
Block_Fatal ==
  /\ alive
  /\ wpc = "block"
  /\ Exit("block")
  /\ UNCHANGED <<lockCount, nsVars, blockVars, helperVars, emitted, blockLog, restoreFailed>>
  /\ UNCHANGED outsideCollection

(* Variant of AfterBlock: the restoration after a sandbox's block is left out. *)
AfterBlockNoRestore(p) == "ret"

(* Where collectStatsInNETNS returns to: the restoration of the namespace  *)
(* after a sandbox's block, the end of CollectFromMainThread after the     *)
(* host's.                                                                 *)
AfterBlock(p) == IF p = HOST THEN "ret" ELSE "restore"

(* collectStatsInNETNS returns. *)
Block_Return ==
  /\ alive
  /\ wpc = "block"
  /\ blockLeft = 0
  /\ wpc' = AfterBlock(blockPod)
  /\ UNCHANGED <<alive, lockCount, nsVars, blockVars, helperVars, emitted, blockLog,
                 exitHist>>
  /\ UNCHANGED outsideCollection

(* Variant of NsAfterSet: the call leaves the thread where it was. *)
NsAfterSetStale(h) == curNS

(* The namespace of the thread after a successful netns.Set(h). *)
NsAfterSet(h) == h

(* netns.Set(origns) succeeded; nsHandle.Close(); next iteration. *)
CFMT_RestoreNS ==
  /\ alive
  /\ wpc = "restore"
  /\ origns # None
  /\ wpc' = "loop"
  /\ curNS' = NsAfterSet(origns)
  /\ openSb' = AfterClose(nsHandle)
  /\ nsHandle' = None
  /\ idx' = idx + 1
  /\ UNCHANGED <<alive, lockCount, origns, origOpen, infos, blockVars, helperVars,
                 emitted, blockLog, exitHist>>
  /\ UNCHANGED outsideCollection

(* Variant of CFMT_RestoreFail: the failure is logged and the loop goes on. *)
CFMT_RestoreFailContinue ==
  /\ alive
  /\ wpc = "restore"
  /\ restoreFailed' = TRUE
  /\ wpc' = "loop"
  /\ openSb' = AfterClose(nsHandle)
  /\ nsHandle' = None
  /\ idx' = idx + 1
  /\ UNCHANGED <<alive, exitWhy, lockCount, curNS, origns, origOpen, infos, blockVars,
                 helperVars, emitted, blockLog>>
  /\ UNCHANGED outsideCollection

(* netns.Set(origns) failed (it always fails on the invalid handle):       *)
(* os.Exit(1).                                                             *)
CFMT_RestoreFail ==
  /\ alive
  /\ wpc = "restore"
  /\ restoreFailed' = TRUE
  /\ Exit("restore")
  /\ UNCHANGED <<lockCount, nsVars, blockVars, helperVars, emitted, blockLog>>
  /\ UNCHANGED outsideCollection

(* Variant of CollectHostEnabled: the host is a sandbox like the others,   *)
(* which the pod filter has to match.                                      *)
CollectHostEnabledAndMatched == hostEnabled /\ PodMatches(HOST)

(* `c.options.CollectHost.Enabled` *)
CollectHostEnabled == hostEnabled

(* The loop over infos is over: `if c.options.CollectHost.Enabled` the     *)
(* block runs for the HOST PodInfo, without any namespace switch.          *)
CFMT_LoopEnd ==
  /\ alive
  /\ wpc = "loop"
  /\ idx > Len(infos)
  /\ IF CollectHostEnabled
       THEN /\ wpc' = "block"
            /\ blockPod' = HOST
            /\ blockLeft' \in 0..MaxBlockSamples
            /\ blockK' = 0
            /\ blockLog' = Append(blockLog, HOST)
       ELSE /\ wpc' = "ret"
            /\ UNCHANGED <<blockVars, blockLog>>
  /\ UNCHANGED <<alive, lockCount, nsVars, helperVars, emitted, exitHist>>
  /\ UNCHANGED outsideCollection

(* Variant of OrignsAfterReturn: the handle is kept, open, for the next    *)
(* collection.                                                             *)
OrignsKeptAfterReturn == [handle |-> origns, open |-> origOpen]

(* origns after the deferred origns.Close() and the end of its scope. *)
OrignsAfterReturn == [handle |-> None, open |-> FALSE]

(* Variant of UnlockOSThread: one call undoes every LockOSThread of the    *)
(* goroutine.                                                              *)
UnlockOSThreadAtOnce(n) == 0

(* runtime.UnlockOSThread: the goroutine stays wired to its thread until   *)
(* it has made as many calls of it as of LockOSThread.                     *)
UnlockOSThread(n) == n - 1

(* CollectFromMainThread returns: the deferred origns.Close() and          *)
(* runtime.UnlockOSThread() run and the locals go out of scope.            *)
CFMT_Return ==
  /\ alive
  /\ wpc = "ret"
  /\ wpc' = "close"
  /\ origOpen' = OrignsAfterReturn.open
  /\ origns' = OrignsAfterReturn.handle
  /\ lockCount' = UnlockOSThread(lockCount)
  /\ infos' = <<>>
  /\ idx' = 1
  /\ blockPod' = HOST
  /\ blockLeft' = 0
  /\ blockK' = 0
  /\ UNCHANGED <<alive, curNS, nsHandle, openSb, helperVars, emitted, blockLog, exitHist>>
  /\ UNCHANGED outsideCollection

(* ------------------------------- helper ------------------------------- *)

(* What no step of the helper changes. *)
outsideHelper == <<libVars, cfgVars, now, alive, wpc, cur, cacheVars, ri, lockCount, nsVars,
                   blockVars, callerVars, callHist, collHist, emitted, blockLog, reqHist,
                   served, causeFed, exitHist>>

(* `metricTemp = append(metricTemp, m)` *)
Helper_Append ==
  /\ alive
  /\ hpc = "append"
  /\ metricTemp' = Append(metricTemp, pending)
  /\ pending' = <<>>
  /\ hpc' = "recv"
  /\ UNCHANGED chanClosed
  /\ UNCHANGED outsideHelper

(* `for m := range metricsChan` ends on the closed channel. *)
Helper_Exit ==
  /\ alive
  /\ hpc = "recv"
  /\ chanClosed
  /\ hpc' = "done"
  /\ UNCHANGED <<pending, metricTemp, chanClosed>>
  /\ UNCHANGED outsideHelper

(* ------------------- worker: install, replay, acknowledge ------------- *)

(* close(metricsChan) *)
CloseMetricsChan ==
  /\ alive
  /\ wpc = "close"
  /\ wpc' = "install"
  /\ chanClosed' = TRUE
  /\ UNCHANGED <<libVars, cfgVars, now, alive, cur, cacheVars, ri, lockCount, nsVars, blockVars,
                 hpc, pending, metricTemp, callerVars, callHist, collHist, emitted,
                 blockLog, reqHist, served, causeFed, exitHist>>

(* `metricsCache = metricTemp; cacheTimestamp = time.Now()`.  The read of  *)
(* metricTemp is not ordered with the helper's append of the sample it     *)
(* received last: the worker reads the vector with or without it.          *)
InstallCache ==
  /\ alive
  /\ wpc = "install"
  /\ wpc' = "replay"
  /\ metricsCache' = metricTemp
  /\ \E t \in ClockReadings :
       /\ now' = t
       /\ cacheTimestamp' = t
       /\ firstEnd' = IF nInstalled = 0 THEN t ELSE firstEnd
  /\ firstLen' = IF nInstalled = 0 THEN Len(metricTemp) ELSE firstLen
  /\ ri' = 1
  /\ nInstalled' = nInstalled + 1
  /\ UNCHANGED <<libVars, cfgVars, alive, cur, lockCount, nsVars, blockVars, helperVars,
                 callerVars, callHist, nColl, emitted, blockLog, reqHist, served,
                 causeFed, exitHist>>

(* Variant of ReplaySource: the replay ranges over metricTemp. *)
ReplaySourceTemp == metricTemp

(* The vector the replay loop ranges over. *)
ReplaySource == metricsCache

(* `collectRequest.Feed <- m`: the rendezvous with the consumer of the     *)
(* caller's sink.  There is no select and no timeout around the send.      *)
FeedSample ==
  /\ alive
  /\ wpc = "replay"
  /\ ri <= Len(ReplaySource)
  /\ sinkOpen[cur]
  /\ got' = [got EXCEPT ![cur] = Append(@, ReplaySource[ri])]
  /\ ri' = ri + 1
  /\ UNCHANGED <<libVars, cfgVars, now, alive, wpc, cur, cacheVars, lockCount, nsVars, blockVars,
                 helperVars, cst, calls, sinkOpen, callHist, collHist, emitted, blockLog,
                 reqHist, served, causeFed, exitHist>>

(* Variant of ReplayOver: the acknowledgement does not wait for the replay. *)
ReplayOverAtOnce == TRUE

(* Variant of ReplayOver: the loop never ends, no acknowledgement is sent. *)
ReplayOverNever == FALSE

(* `for _, m := range metricsCache` has no element left. *)
ReplayOver == ri > Len(ReplaySource)

(* The replay loop is over.  `collectRequest.Done <- true`: the rendezvous *)
(* with the caller's `<-doneCh`; the worker goes back to the range over    *)
(* collectRequestChan.                                                     *)
SendDone ==
  /\ alive
  /\ wpc = "replay"
  /\ ReplayOver
  /\ cst[cur] = "await"
  /\ cst' = [cst EXCEPT ![cur] = "acked"]
  /\ nAcked' = nAcked + 1
  /\ causeFed' = IF served[cur] = "miss" THEN got[cur] ELSE causeFed
  /\ wpc' = "wait"
  /\ cur' = None
  /\ UNCHANGED <<libVars, cfgVars, now, alive, cacheVars, ri, lockCount, nsVars, blockVars,
                 helperVars, calls, got, sinkOpen, callHist, collHist, emitted, blockLog,
                 nAccepted, acceptNo, served, exitHist>>

(* ---------------------------- specification --------------------------- *)
Next ==
  \/ \E c \in Callers : CollectCall(c)
  \/ \E c \in Callers : CollectReturn(c)
  \/ \E c \in Callers : AbandonSink(c)
  \/ \E c \in Callers : ReceiveRequest(c)
  \/ CacheMiss
  \/ CacheHit
  \/ CFMT_GetOrigNS
  \/ CFMT_ListSandboxes
  \/ CFMT_ListFail
  \/ CFMT_SkipFiltered
  \/ CFMT_OpenFail
  \/ CFMT_OpenHandle
  \/ CFMT_EnterFail
  \/ CFMT_EnterNS
  \/ Block_EmitSample
  \/ Block_Fatal
  \/ Block_Return
  \/ CFMT_RestoreNS
  \/ CFMT_RestoreFail
  \/ CFMT_LoopEnd
  \/ CFMT_Return
  \/ Helper_Append
  \/ Helper_Exit
  \/ CloseMetricsChan
  \/ InstallCache
  \/ FeedSample
  \/ SendDone

Spec == Init /\ [][Next]_vars

(* ------------------ the exporter under fair scheduling ---------------- *)

(* The steps the worker goroutine takes by itself or with the helper. *)
WorkerStep ==
  \/ CacheMiss
  \/ CacheHit
  \/ CFMT_GetOrigNS
  \/ CFMT_ListSandboxes
  \/ CFMT_ListFail
  \/ CFMT_SkipFiltered
  \/ CFMT_OpenFail
  \/ CFMT_OpenHandle
  \/ CFMT_EnterFail
  \/ CFMT_EnterNS
  \/ Block_EmitSample
  \/ Block_Fatal
  \/ Block_Return
  \/ CFMT_RestoreNS
  \/ CFMT_RestoreFail
  \/ CFMT_LoopEnd
  \/ CFMT_Return
  \/ CloseMetricsChan
  \/ InstallCache

(* The exporter with callers whose sinks are drained until the             *)
(* acknowledgement.                                                        *)
NextDraining ==
  \/ \E c \in Callers : calls < MaxFairCalls /\ CollectCall(c)
  \/ \E c \in Callers : CollectReturn(c)
  \/ \E c \in Callers : ReceiveRequest(c)
  \/ WorkerStep
  \/ Helper_Append
  \/ Helper_Exit
  \/ FeedSample
  \/ SendDone

(* The scheduler runs every goroutine that can run: the worker, the        *)
(* helper, a caller that was acknowledged; a send into a sink that is      *)
(* drained and the acknowledgement to a waiting caller complete; a caller  *)
(* blocked in its send on chanToFeed is received once the worker is back   *)
(* at its receive (the senders of a channel wait in a queue).              *)
Fairness ==
  /\ WF_vars(WorkerStep)
  /\ WF_vars(Helper_Append \/ Helper_Exit)
  /\ WF_vars(FeedSample \/ SendDone)
  /\ \A c \in Callers : WF_vars(CollectReturn(c))
  /\ \A c \in Callers : SF_vars(ReceiveRequest(c))

SpecFair == Init /\ [][NextDraining]_vars /\ Fairness

(* ---------------------- controller resolver: caches ------------------- *)

(* The LRU caches of go-generics-cache, as sequences of <<key, value>>     *)
(* entries from the least to the most recently used.                       *)
Has(c, k) == \E i \in 1..Len(c) : c[i][1] = k

ValueOf(c, k) == c[CHOOSE i \in 1..Len(c) : c[i][1] = k][2]

Without(c, k) == SelectSeq(c, LAMBDA e : e[1] # k)

(* What Get leaves of the cache: a hit makes the entry the most recently   *)
(* used one.                                                               *)
LruTouch(c, k) == IF Has(c, k) THEN Append(Without(c, k), <<k, ValueOf(c, k)>>) ELSE c

(* Set: the entry becomes the most recently used one and, over capacity,   *)
(* the least recently used entry is dropped.                               *)
LruSet(c, k, v, cap) ==
  LET a == Append(Without(c, k), <<k, v>>)
  IN  IF Len(a) > cap THEN Tail(a) ELSE a

(* Variant of LruDelete: the least recently used entry goes, whatever its  *)
(* key.                                                                    *)
LruDeleteOldest(c, k) == IF Len(c) = 0 THEN c ELSE Tail(c)

(* Delete: the entry of the key goes, the others keep their order. *)
LruDelete(c, k) == Without(c, k)

getInt(val, def) == IF val = 0 THEN def ELSE val

(* Variant of ParentCapacity: the parent cache is sized by                 *)
(* ParentCacheCapacity.                                                    *)
ParentCapacityOwn(o) == getInt(o.ParentCacheCapacity, DefaultParentCapacity)

(* The capacities NewResolver gives the two caches; both read              *)
(* opts.PodCacheCapacity.                                                  *)
ParentCapacity(o) == getInt(o.PodCacheCapacity, DefaultParentCapacity)

PodCapacity(o) == getInt(o.PodCacheCapacity, DefaultPodCapacity)

generateCacheKey(namespace, ownerRef) ==
  <<"owner", ownerRef.UID, ownerRef.APIVersion, ownerRef.Kind, namespace, ownerRef.Name>>

generatePodCacheKeyFromUID(uid) == <<"pod", uid>>

(* --------------------- controller resolver: resolution ----------------- *)

(* Variant of getControllerOwnerReference: always the first reference. *)
getFirstOwnerReference(orefs) == orefs[1]

(* The first reference whose controller flag is set, else the first one. *)
getControllerOwnerReference(orefs) ==
  IF \E i \in 1..Len(orefs) : orefs[i].Controller
    THEN orefs[CHOOSE i \in 1..Len(orefs) :
                 orefs[i].Controller /\ \A j \in 1..(i - 1) : ~orefs[j].Controller]
    ELSE orefs[1]

(* The PodControllerRef built from an owner reference. *)
RefOf(ownerRef, namespace) ==
  [UID |-> ownerRef.UID, APIVersion |-> ownerRef.APIVersion, Kind |-> ownerRef.Kind,
   Namespace |-> namespace, Name |-> ownerRef.Name]

(* Variant of OrphanRef: the namespace of the pod is left out. *)
OrphanRefNoNamespace(namespace) ==
  [UID |-> orphanSentinel, APIVersion |-> orphanSentinel, Kind |-> orphanSentinel,
   Namespace |-> "", Name |-> orphanSentinel]

(* The ref returned for a pod without owner references. *)
OrphanRef(namespace) ==
  [UID |-> orphanSentinel, APIVersion |-> orphanSentinel, Kind |-> orphanSentinel,
   Namespace |-> namespace, Name |-> orphanSentinel]

(* Variant of WalkedRef: the walk stops at the fetched object. *)
WalkedRefNoWalk(namespace, ownerRef, parent) == RefOf(ownerRef, namespace)

(* getParentDetail after the fetch: the ref of the fetched object's        *)
(* controlling owner, or of the object itself when it has no owner.        *)
WalkedRef(namespace, ownerRef, parent) ==
  IF Len(parent) = 0
    THEN RefOf(ownerRef, namespace)
    ELSE RefOf(getControllerOwnerReference(parent), namespace)

(* Variant of ParentAfterFailedFetch: the failure is remembered, as an     *)
(* entry that refers to the owner itself.                                  *)
ParentAfterFailedFetchCached(namespace, ownerRef) ==
  LruSet(parentCache, generateCacheKey(namespace, ownerRef), RefOf(ownerRef, namespace),
         ParentCapacity(ropts))

(* parentCache after getParentDetail returned the error of the Get: the    *)
(* return is before any Set.                                               *)
ParentAfterFailedFetch(namespace, ownerRef) == parentCache

(* getParentDetail: what it returns and what it leaves of parentCache;     *)
(* fetched tells whether the Get of the ReplicaSet or Job succeeded.       *)
getParentDetail(namespace, ownerRef, fetched) ==
  LET cacheKey == generateCacheKey(namespace, ownerRef)
  IN  IF Has(parentCache, cacheKey)
        THEN [ok |-> TRUE, res |-> ValueOf(parentCache, cacheKey), via |-> "parentCache",
              parent |-> LruTouch(parentCache, cacheKey)]
        ELSE IF ownerRef.Kind \in {"ReplicaSet", "Job"}
          THEN IF ~fetched
            THEN [ok |-> FALSE, res |-> NoRef, via |-> "fetch",
                  parent |-> ParentAfterFailedFetch(namespace, ownerRef)]
            ELSE LET result == WalkedRef(namespace, ownerRef, cluster[ownerRef.Kind])
                 IN  [ok |-> TRUE, res |-> result, via |-> "fetch",
                      parent |-> LruSet(parentCache, cacheKey, result, ParentCapacity(ropts))]
          ELSE LET res == RefOf(ownerRef, namespace)
               IN  [ok |-> TRUE, res |-> res, via |-> "default",
                    parent |-> LruSet(parentCache, cacheKey, res, ParentCapacity(ropts))]

(* The switch of ResolvePodControllerRef on the kind of the controlling    *)
(* owner reference.                                                        *)
ResolveOwner(namespace, ownerRef, fetched) ==
  CASE ownerRef.Kind \in {"ReplicaSet", "Job"} -> getParentDetail(namespace, ownerRef, fetched)
    [] ownerRef.Kind \in {"StatefulSet", "DaemonSet", "Deployment", "CronJob"} ->
         [ok |-> TRUE, res |-> RefOf(ownerRef, namespace), via |-> "direct",
          parent |-> parentCache]
    [] ownerRef.Kind = "Node" ->
         [ok |-> TRUE, res |-> RefOf(ownerRef, ""), via |-> "direct", parent |-> parentCache]
    [] OTHER -> getParentDetail(namespace, ownerRef, fetched)

(* ResolvePodControllerRef on a pod with the given UID and owner           *)
(* references: what it returns and what it leaves of the two caches.       *)
Resolution(uid, orefs, fetched) ==
  LET podKey == generatePodCacheKeyFromUID(uid)
  IN  IF Has(podCache, podKey)
        THEN [ok |-> TRUE, res |-> ValueOf(podCache, podKey), via |-> "podCache",
              pod |-> LruTouch(podCache, podKey), parent |-> parentCache]
        ELSE IF Len(orefs) = 0
          THEN [ok |-> TRUE, res |-> OrphanRef(PodNamespace), via |-> "orphan",
                pod |-> podCache, parent |-> parentCache]
          ELSE LET d == ResolveOwner(PodNamespace, getControllerOwnerReference(orefs), fetched)
               IN  IF ~d.ok
                     THEN [ok |-> FALSE, res |-> NoRef, via |-> d.via,
                           pod |-> podCache, parent |-> d.parent]
                     ELSE [ok |-> TRUE, res |-> d.res, via |-> d.via,
                           pod |-> LruSet(podCache, podKey, d.res, PodCapacity(ropts)),
                           parent |-> d.parent]

(* --------------------- controller resolver: operations ----------------- *)

(* The outcomes of the three list probes of checkClientHasPermission. *)
Probes == [{"pods", "replicasets", "jobs"} -> BOOLEAN]

(* Variant of checkClientHasPermission: only the pods probe counts. *)
checkPodsPermissionOnly(probes) == probes["pods"]

(* checkClientHasPermission: no probe returned an error. *)
checkClientHasPermission(probes) == \A p \in DOMAIN probes : probes[p]

(* The uid "" of GetControllerForUid. *)
EmptyUID == 0

(* The kind of the controlling owner reference of a list: of the first     *)
(* reference whose controller flag is set, else of the first reference;    *)
(* "none" for an object without owner references.                          *)
ControllingKind(orefs) ==
  IF Len(orefs) = 0 THEN "none"
  ELSE LET cs == {i \in 1..Len(orefs) : orefs[i].Controller}
       IN  IF cs = {} THEN orefs[1].Kind
           ELSE orefs[CHOOSE i \in cs : \A j \in cs : i <= j].Kind

(* What an operation records of itself. *)
Did(op) == [NoOp EXCEPT !.op = op]

(* NewResolver: the configuration and the clientset are built, the probes  *)
(* run; with a failed probe the no-op resolver is returned, before any     *)
(* cache is made or any handler registered.                                *)
NewResolver(o, probes) ==
  /\ rkind = "none"
  /\ IF checkClientHasPermission(probes)
       THEN rkind' = "active" /\ ropts' = o
       ELSE rkind' = "noop" /\ ropts' = ropts
  /\ parentCache' = <<>>
  /\ podCache' = <<>>
  /\ lastOp' = [Did("new") EXCEPT !.ok = \A p \in DOMAIN probes : probes[p]]
  /\ UNCHANGED <<cluster, rpc, inflight, workerVars,
                 parserVars>>

(* NewResolver: the configuration or the clientset cannot be built: panic. *)
NewResolverPanic ==
  /\ rkind = "none"
  /\ rkind' = "panicked"
  /\ lastOp' = Did("panic")
  /\ UNCHANGED <<ropts, cluster, parentCache, podCache, rpc, inflight, workerVars,
                 parserVars>>

(* noopResolver.GetControllerForUid *)
NoopGetControllerForUid(uid) ==
  /\ rkind = "noop"
  /\ lastOp' = [Did("get") EXCEPT !.ok = FALSE, !.res = NoRef]
  /\ UNCHANGED <<rkind, ropts, cluster, parentCache, podCache, rpc, inflight, workerVars,
                 parserVars>>

(* noopResolver.ResolvePodControllerRef *)
NoopResolvePodControllerRef(uid, orefs) ==
  /\ rkind = "noop"
  /\ lastOp' = [Did("resolve") EXCEPT !.ok = FALSE, !.res = NoRef, !.via = "noop"]
  /\ UNCHANGED <<rkind, ropts, cluster, parentCache, podCache, rpc, inflight, workerVars,
                 parserVars>>

(* noopResolver.RemovePodControllerRef *)
NoopRemovePodControllerRef(uid) ==
  /\ rkind = "noop"
  /\ lastOp' = Did("remove")
  /\ UNCHANGED <<rkind, ropts, cluster, parentCache, podCache, rpc, inflight, workerVars,
                 parserVars>>

(* resolver.GetControllerForUid *)
GetControllerForUid(uid) ==
  /\ rkind = "active"
  /\ rpc = "idle"
  /\ LET podKey == generatePodCacheKeyFromUID(uid)
         found == uid # EmptyUID /\ Has(podCache, podKey)
     IN  /\ podCache' = IF found THEN LruTouch(podCache, podKey) ELSE podCache
         /\ lastOp' = [Did("get") EXCEPT !.ok = found,
                                         !.res = IF found THEN ValueOf(podCache, podKey)
                                                          ELSE NoRef]
  /\ UNCHANGED <<rkind, ropts, cluster, parentCache, rpc, inflight, workerVars,
                 parserVars>>

(* resolver.ResolvePodControllerRef, called by a user of the resolver or   *)
(* by the informer handler that is about to call it.                       *)
ResolvePodControllerRef(uid, orefs) ==
  /\ rkind = "active"
  /\ \E r \in {Resolution(uid, orefs, fetched) : fetched \in BOOLEAN} :
         /\ podCache' = r.pod
         /\ parentCache' = r.parent
         /\ lastOp' = [Did("resolve") EXCEPT
                         !.ctrl = ControllingKind(orefs),
                         !.via = r.via, !.res = r.res, !.ok = r.ok,
                         !.podKept = (r.pod = podCache)]
  /\ rpc' = "idle"
  /\ UNCHANGED <<rkind, ropts, cluster, inflight, workerVars,
                 parserVars>>

(* The call in progress, once a removal of pod uid has completed: if it    *)
(* resolves that pod, the removal is noted in it.                          *)
NotedRemoval(uid) ==
  IF inflight.uid = uid THEN [inflight EXCEPT !.removed = TRUE] ELSE inflight

(* resolver.RemovePodControllerRef *)
RemovePodControllerRef(uid) ==
  /\ rkind = "active"
  /\ rpc = "idle"
  /\ podCache' = LruDelete(podCache, generatePodCacheKeyFromUID(uid))
  /\ lastOp' = Did("remove")
  /\ inflight' = NotedRemoval(uid)
  /\ UNCHANGED <<rkind, ropts, cluster, parentCache, rpc, workerVars, parserVars>>

(* `allNodes := opts.Nodename != ""` *)
allNodes == ropts.Nodename # ""

(* Variant of AddFuncReturns: the phase of the pod is not looked at. *)
AddFuncReturnsAnyPhase(phase, node) ==
  (~allNodes /\ node # ropts.Nodename) \/ node = ""

(* Whether AddFunc returns before it resolves the pod. *)
AddFuncReturns(phase, node) ==
  \/ phase # "Running" /\ phase # "Pending"
  \/ (~allNodes /\ node # ropts.Nodename) \/ node = ""

(* Whether UpdateFunc resolves the pod. *)
UpdateFuncResolves(phase, oldNode, node, sameVersion) ==
  /\ ~(phase # "Running" /\ phase # "Pending")
  /\ ~sameVersion
  /\ (oldNode = "" /\ node # "") /\ (node = ropts.Nodename \/ allNodes)

(* The informer's AddFunc, up to its call of ResolvePodControllerRef. *)
AddFunc(phase, node) ==
  /\ rkind = "active"
  /\ rpc = "idle"
  /\ rpc' = IF AddFuncReturns(phase, node) THEN "idle" ELSE "handler"
  /\ lastOp' = [Did("add") EXCEPT !.node = node, !.resolve = ~AddFuncReturns(phase, node)]
  /\ UNCHANGED <<rkind, ropts, cluster, parentCache, podCache, inflight, workerVars,
                 parserVars>>

(* The informer's UpdateFunc, up to its call of ResolvePodControllerRef. *)
UpdateFunc(phase, oldNode, node, sameVersion) ==
  /\ rkind = "active"
  /\ rpc = "idle"
  /\ rpc' = IF UpdateFuncResolves(phase, oldNode, node, sameVersion) THEN "handler" ELSE "idle"
  /\ lastOp' = [Did("update") EXCEPT
                  !.node = node,
                  !.resolve = UpdateFuncResolves(phase, oldNode, node, sameVersion)]
  /\ UNCHANGED <<rkind, ropts, cluster, parentCache, podCache, inflight, workerVars,
                 parserVars>>

(* The informer's DeleteFunc: r.RemovePodControllerRef(pod). *)
DeleteFunc(uid) ==
  /\ rkind = "active"
  /\ rpc = "idle"
  /\ podCache' = LruDelete(podCache, generatePodCacheKeyFromUID(uid))
  /\ lastOp' = Did("delete")
  /\ inflight' = NotedRemoval(uid)
  /\ UNCHANGED <<rkind, ropts, cluster, parentCache, rpc, workerVars, parserVars>>

(* The resolver against a cluster, the worker not started. *)
InitResolver ==
  /\ WorkerParked
  /\ ParserIdle
  /\ rkind = "none"
  /\ ropts = NoOptions
  /\ cluster \in Clusters
  /\ parentCache = <<>>
  /\ podCache = <<>>
  /\ rpc = "idle"
  /\ lastOp = NoOp
  /\ inflight = NoCall

NextResolver ==
  \/ \E o \in ResolverOptions, probes \in Probes : NewResolver(o, probes)
  \/ NewResolverPanic
  \/ \E uid \in PodUIDs \cup {EmptyUID} : NoopGetControllerForUid(uid)
  \/ \E uid \in PodUIDs, orefs \in OwnerRefLists : NoopResolvePodControllerRef(uid, orefs)
  \/ \E uid \in PodUIDs : NoopRemovePodControllerRef(uid)
  \/ \E uid \in PodUIDs \cup {EmptyUID} : GetControllerForUid(uid)
  \/ \E uid \in PodUIDs, orefs \in OwnerRefLists : ResolvePodControllerRef(uid, orefs)
  \/ \E uid \in PodUIDs : RemovePodControllerRef(uid)
  \/ \E phase \in Phases, node \in NodeNames : AddFunc(phase, node)
  \/ \E phase \in Phases, oldNode \in NodeNames, node \in NodeNames, sameVersion \in BOOLEAN :
       UpdateFunc(phase, oldNode, node, sameVersion)
  \/ \E uid \in PodUIDs : DeleteFunc(uid)

SpecResolver == InitResolver /\ [][NextResolver]_vars

(* ------------------- controller resolver: pod events ------------------ *)

(* The pods the informer reports, and the ownerReferences they carry: none, *)
(* a ReplicaSet, a Job, a Deployment.                                      *)
InformerPods == 1..MaxInformerPods

InformerOwnerRefLists ==
  {<<>>, <<OwnerRef("ReplicaSet", TRUE)>>, <<OwnerRef("Job", TRUE)>>,
   <<OwnerRef("Deployment", TRUE)>>}

(* The resolver under the events of several pods and the calls of its      *)
(* users.                                                                  *)
NextInformer ==
  \/ \E o \in ResolverOptions, probes \in Probes : NewResolver(o, probes)
  \/ \E uid \in InformerPods \cup {EmptyUID} : GetControllerForUid(uid)
  \/ \E uid \in InformerPods, orefs \in InformerOwnerRefLists :
       ResolvePodControllerRef(uid, orefs)
  \/ \E uid \in InformerPods : RemovePodControllerRef(uid)
  \/ \E phase \in Phases, node \in NodeNames : AddFunc(phase, node)
  \/ \E phase \in Phases, oldNode \in NodeNames, node \in NodeNames, sameVersion \in BOOLEAN :
       UpdateFunc(phase, oldNode, node, sameVersion)
  \/ \E uid \in InformerPods : DeleteFunc(uid)

SpecInformer == InitResolver /\ [][NextInformer]_vars

(* ------------- controller resolver: a resolution in two steps --------- *)
(* The caches are safe for concurrent use, one operation at a time;        *)
(* ResolvePodControllerRef holds no lock from its lookup to its store, so  *)
(* the operations of other goroutines come in between.                     *)

(* ResolvePodControllerRef up to its `if err != nil`: the lookups in       *)
(* podCache and the resolution of the owner, with its fetch and its store  *)
(* in parentCache.  A hit, an orphan and a failed fetch return at once;    *)
(* otherwise the call has res in hand and podCache.Set is still to come.   *)
ResolveLookup(uid, orefs) ==
  /\ rkind = "active"
  /\ rpc = "idle"
  /\ inflight = NoCall
  /\ \E r \in {Resolution(uid, orefs, fetched) : fetched \in BOOLEAN} :
       /\ parentCache' = r.parent
       /\ IF r.via \in {"podCache", "orphan"} \/ ~r.ok
            THEN /\ podCache' = r.pod
                 /\ inflight' = NoCall
                 /\ lastOp' = [Did("resolve") EXCEPT
                                 !.ctrl = ControllingKind(orefs),
                                 !.via = r.via, !.res = r.res, !.ok = r.ok,
                                 !.podKept = (r.pod = podCache)]
            ELSE /\ podCache' = podCache
                 /\ inflight' = [uid |-> uid, ok |-> TRUE, res |-> r.res, removed |-> FALSE]
                 /\ lastOp' = Did("lookup")
  /\ UNCHANGED <<rkind, ropts, cluster, rpc, workerVars, parserVars>>

(* `r.podCache.Set(podKey, res); return res, nil` *)
ResolveStore ==
  /\ rkind = "active"
  /\ inflight # NoCall
  /\ podCache' = LruSet(podCache, generatePodCacheKeyFromUID(inflight.uid), inflight.res,
                        PodCapacity(ropts))
  /\ lastOp' = [Did("resolve") EXCEPT !.via = "store", !.res = inflight.res, !.ok = TRUE,
                                      !.podKept = FALSE]
  /\ inflight' = NoCall
  /\ UNCHANGED <<rkind, ropts, cluster, parentCache, rpc, workerVars, parserVars>>

(* The resolver called by two goroutines: one resolves pods, the other     *)
(* looks pods up and removes them.                                         *)
NextConcurrent ==
  \/ \E o \in ResolverOptions, probes \in Probes : NewResolver(o, probes)
  \/ \E uid \in InformerPods, orefs \in InformerOwnerRefLists : ResolveLookup(uid, orefs)
  \/ ResolveStore
  \/ \E uid \in InformerPods \cup {EmptyUID} : GetControllerForUid(uid)
  \/ \E uid \in InformerPods : RemovePodControllerRef(uid)

SpecConcurrent == InitResolver /\ [][NextConcurrent]_vars

(* ------------------------------ two-line parser ----------------------- *)

(* strings.Fields: the tokens of a line, white space dropped. *)
Fields(line) == SelectSeq(line, LAMBDA t : t # Blank)

(* Variant of TrimSuffix: the token is returned as it is. *)
TrimSuffixKeep(tok, suffix) == tok

(* strings.TrimSuffix, for a suffix of one character. *)
TrimSuffix(tok, suffix) ==
  IF Len(tok) > 0 /\ tok[Len(tok)] = suffix THEN SubSeq(tok, 1, Len(tok) - 1) ELSE tok

DigitChars == <<"0", "1", "2", "3", "4", "5", "6", "7", "8", "9">>

IsDigit(ch) == \E i \in 1..Len(DigitChars) : DigitChars[i] = ch

DigitVal(ch) == (CHOOSE i \in 1..Len(DigitChars) : DigitChars[i] = ch) - 1

(* The digits of a token, its sign taken off. *)
Unsigned(tok) == IF Len(tok) > 0 /\ tok[1] \in {"+", "-"} THEN Tail(tok) ELSE tok

RECURSIVE Decimal(_)
Decimal(ds) ==
  IF Len(ds) = 0 THEN 0
  ELSE 10 * Decimal(SubSeq(ds, 1, Len(ds) - 1)) + DigitVal(ds[Len(ds)])

(* strconv.Atoi: whether it returns no error, and the value it returns     *)
(* (the tokens of the model are too short to leave the range of int).      *)
AtoiOk(tok) == Len(Unsigned(tok)) > 0 /\ \A i \in 1..Len(Unsigned(tok)) : IsDigit(Unsigned(tok)[i])

Atoi(tok) == IF tok[1] = "-" THEN 0 - Decimal(Unsigned(tok)) ELSE Decimal(Unsigned(tok))

(* `counters[k] = v` *)
Put(m, k, v) == [x \in DOMAIN m \cup {k} |-> IF x = k THEN v ELSE m[x]]

(* The loop of parseSectionCouple from position i on (i counts from 1; the *)
(* loop starts after the leading token).                                   *)
RECURSIVE CountersFrom(_, _, _, _)
CountersFrom(headerFields, valueFields, i, counters) ==
  IF i > Len(headerFields) \/ i > Len(valueFields) THEN counters
  ELSE CountersFrom(headerFields, valueFields, i + 1,
                    IF AtoiOk(valueFields[i])
                      THEN Put(counters, headerFields[i], Atoi(valueFields[i]))
                      ELSE counters)

(* parseSectionCouple *)
parseSectionCouple(headerLine, valueLine) ==
  LET headerFields == Fields(headerLine)
      valueFields == Fields(valueLine)
  IN  IF Len(headerFields) = 0 \/ Len(valueFields) = 0 \/ headerFields[1] # valueFields[1]
        THEN [err |-> TRUE, section |-> <<>>, counters |-> <<>>]
        ELSE [err |-> FALSE, section |-> TrimSuffix(headerFields[1], ":"),
              counters |-> CountersFrom(headerFields, valueFields, 2, <<>>)]

(* A call of parseSectionCouple on the two lines given. *)
ParseCouple ==
  /\ ppc = "couple"
  /\ pout' = parseSectionCouple(plines[1], plines[2])
  /\ ppc' = "done"
  /\ UNCHANGED <<pmap, plines, ppos, presult, workerVars, resolverVars,
                 sockVars>>

(* The pair parser on every pair of lines. *)
InitCouple ==
  /\ WorkerParked
  /\ ResolverIdle
  /\ SockStatsIdle
  /\ plines \in [1..2 -> Lines2L]
  /\ ppos = 1
  /\ presult = <<>>
  /\ pout = NoOut
  /\ ppc = "couple"
  /\ pmap = NoMap

NextCouple == ParseCouple

SpecCouple == InitCouple /\ [][NextCouple]_vars

(* Variant of AfterCouple: after a malformed pair only the header line is  *)
(* consumed.                                                               *)
AfterCoupleReuse(pos, err) == IF err THEN pos + 1 ELSE pos + 2

(* The line the scanner returns next after the pair at pos, pos + 1. *)
AfterCouple(pos, err) == pos + 2

(* parse2LFromScanner, one turn of the loop with both lines present: the   *)
(* pair is parsed; a malformed pair is skipped, a well-formed one sets the *)
(* entry of its section.                                                   *)
ScanCouple ==
  /\ ppc = "scan"
  /\ ppos + 1 <= Len(plines)
  /\ \E c \in {parseSectionCouple(plines[ppos], plines[ppos + 1])} :
       /\ presult' = IF c.err THEN presult ELSE Put(presult, c.section, c.counters)
       /\ ppos' = AfterCouple(ppos, c.err)
  /\ UNCHANGED <<pmap, plines, pout, ppc, workerVars, resolverVars,
                 sockVars>>

(* Variant of ReturnAtEnd: a header line that no value line follows is an  *)
(* error of the parse.                                                     *)
ReturnAtEndStrict(result, lines, pos) ==
  IF pos = Len(lines)
    THEN [err |-> TRUE, section |-> <<>>, counters |-> <<>>]
    ELSE [err |-> FALSE, section |-> <<>>, counters |-> result]

(* What parse2LFromScanner returns when the scanner has no line left for   *)
(* the header (pos beyond the last line) or for the value (pos the last    *)
(* line): the loop ends, scanner.Err() is nil and the result is returned.  *)
ReturnAtEnd(result, lines, pos) ==
  [err |-> FALSE, section |-> <<>>, counters |-> result]

(* parse2LFromScanner: the scanner is at its end, before a header line or  *)
(* after one that no value line follows; scanner.Err() is nil and the      *)
(* result is returned.                                                     *)
ScanEnd ==
  /\ ppc = "scan"
  /\ ppos + 1 > Len(plines)
  /\ ppos' = Len(plines) + 1
  /\ pout' = ReturnAtEnd(presult, plines, ppos)
  /\ ppc' = "done"
  /\ UNCHANGED <<pmap, plines, presult, workerVars, resolverVars,
                 sockVars>>

(* parse2LFromScanner: the scanner stops on a read error; scanner.Err()    *)
(* is returned and the result is dropped.                                  *)
ScanFail ==
  /\ ppc = "scan"
  /\ pout' = [err |-> TRUE, section |-> <<>>, counters |-> <<>>]
  /\ ppc' = "failed"
  /\ UNCHANGED <<pmap, plines, ppos, presult, workerVars, resolverVars,
                 sockVars>>

(* The whole-input parser on every input. *)
InitParse2L ==
  /\ WorkerParked
  /\ ResolverIdle
  /\ SockStatsIdle
  /\ plines \in ScanInputs
  /\ ppos = 1
  /\ presult = <<>>
  /\ pout = NoOut
  /\ ppc = "scan"
  /\ pmap = NoMap

NextParse2L == ScanCouple \/ ScanEnd \/ ScanFail

SpecParse2L == InitParse2L /\ [][NextParse2L]_vars

(* ------------------------------ six-separated parser ------------------ *)
(* internal/procnet_v6_parser. A line is the sequence of its characters.   *)

(* The characters of the lines the line parser is tried on: letters, the   *)
(* separator (a digit too), another digit, the sign and the space.         *)
V6Chars == {"p", "a", "6", "7", "-", " "}

V6Lines == SeqsUpTo(V6Chars, MaxLineChars)

(* The lines of the inputs of the whole-input parser: two counters of one  *)
(* section, one of them twice, a counter of another section, and lines     *)
(* the line parser refuses.                                                *)
V6ScanLines ==
  {<<"p", "6", "a", " ", "7">>, <<"p", "6", "a", " ", "6">>, <<"p", "6", "p", " ", "-", "7">>,
   <<"a", "6", "a", " ", "7">>, <<"p", "6", "7", " ", "a">>, <<"a", " ", "7">>,
   <<"p", "a", "6">>, <<"p", "6", "a">>, <<>>}

(* The inputs: every single line, and every short sequence of the lines    *)
(* above.                                                                  *)
V6Inputs == {<<l>> : l \in V6Lines} \cup SeqsUpTo(V6ScanLines, MaxLines)

WhiteSpace == {" ", "\t"}

MinOf(S) == CHOOSE x \in S : \A y \in S : x <= y
MaxOf(S) == CHOOSE x \in S : \A y \in S : y <= x

(* Variant of Index6: the last occurrence of the separator. *)
LastIndex6(line) ==
  IF \E k \in 1..Len(line) : line[k] = "6"
    THEN MaxOf({k \in 1..Len(line) : line[k] = "6"}) ELSE 0

(* strings.Index(line, "6"), counted from 1; 0 when there is none. *)
Index6(line) ==
  IF \E k \in 1..Len(line) : line[k] = "6"
    THEN MinOf({k \in 1..Len(line) : line[k] = "6"}) ELSE 0

(* strings.TrimSpace *)
TrimSpace(str) ==
  LET ns == {k \in 1..Len(str) : str[k] \notin WhiteSpace}
  IN  IF ns = {} THEN <<>> ELSE SubSeq(str, MinOf(ns), MaxOf(ns))

(* strings.Fields on the characters of a string: its maximal runs of       *)
(* characters that are no white space.                                     *)
RECURSIVE FieldsOfString(_)
FieldsOfString(str) ==
  IF Len(str) = 0 THEN <<>>
  ELSE IF str[1] \in WhiteSpace THEN FieldsOfString(Tail(str))
  ELSE LET sp == {k \in 1..Len(str) : str[k] \in WhiteSpace}
           n == IF sp = {} THEN Len(str) + 1 ELSE MinOf(sp)
       IN  <<SubSeq(str, 1, n - 1)>> \o FieldsOfString(SubSeq(str, n, Len(str)))

NoEntry == [err |-> TRUE, section |-> <<>>, counter |-> <<>>, val |-> 0]

(* parseSnmp6Line *)
parseSnmp6Line(line) ==
  LET i == Index6(line)
  IN  IF i = 0 \/ i = Len(line) THEN NoEntry
      ELSE LET section == TrimSpace(SubSeq(line, 1, i))
               rest == TrimSpace(SubSeq(line, i + 1, Len(line)))
               fields == FieldsOfString(rest)
           IN  IF Len(fields) # 2 THEN NoEntry
               ELSE IF ~AtoiOk(fields[2]) THEN NoEntry
               ELSE [err |-> FALSE, section |-> section, counter |-> fields[1],
                     val |-> Atoi(fields[2])]

(* Variant of PutCounter: the map of the section is made anew for every    *)
(* counter.                                                                *)
PutCounterAnew(result, section, counter, val) ==
  Put(result, section, Put(<<>>, counter, val))

(* `result[section][counterName] = val`, the map of the section made when  *)
(* the result has none.                                                    *)
PutCounter(result, section, counter, val) ==
  Put(result, section,
      Put(IF section \in DOMAIN result THEN result[section] ELSE <<>>, counter, val))

(* parseV6FromScanner, one turn of the loop: a line the line parser        *)
(* refuses is skipped, any other sets its counter.                         *)
ScanV6Line ==
  /\ ppc = "v6scan"
  /\ ppos <= Len(plines)
  /\ \E e \in {parseSnmp6Line(plines[ppos])} :
       presult' = IF e.err THEN presult ELSE PutCounter(presult, e.section, e.counter, e.val)
  /\ ppos' = ppos + 1
  /\ UNCHANGED <<pmap, plines, pout, ppc, workerVars, resolverVars,
                 sockVars>>

(* parseV6FromScanner: the scanner is at the end of the input;             *)
(* scanner.Err() is nil and the result is returned.                        *)
ScanV6End ==
  /\ ppc = "v6scan"
  /\ ppos > Len(plines)
  /\ pout' = [err |-> FALSE, section |-> <<>>, counters |-> presult]
  /\ ppc' = "done"
  /\ UNCHANGED <<pmap, plines, ppos, presult, workerVars, resolverVars,
                 sockVars>>

(* parseV6FromScanner: the scanner stops on a read error; scanner.Err()    *)
(* is returned and the result is dropped.                                  *)
ScanV6Fail ==
  /\ ppc = "v6scan"
  /\ pout' = [err |-> TRUE, section |-> <<>>, counters |-> <<>>]
  /\ ppc' = "failed"
  /\ UNCHANGED <<pmap, plines, ppos, presult, workerVars, resolverVars,
                 sockVars>>

InitParseV6 ==
  /\ WorkerParked
  /\ ResolverIdle
  /\ SockStatsIdle
  /\ plines \in V6Inputs
  /\ ppos = 1
  /\ presult = <<>>
  /\ pout = NoOut
  /\ ppc = "v6scan"
  /\ pmap = NoMap

NextParseV6 == ScanV6Line \/ ScanV6End \/ ScanV6Fail

SpecParseV6 == InitParseV6 /\ [][NextParseV6]_vars

(* ------------------------------ written CounterMaps ------------------- *)
(* A CounterMap written in the format a parser reads, and read back by     *)
(* that parser.                                                            *)

(* Names free of white space: with and without the separator of snmp6,     *)
(* and the empty name.                                                     *)
SectionNames == {<<"p", "6">>, <<"a">>}
CounterNames == {<<"a">>, <<"6">>, <<>>}
CounterValues == {0 - 3, 10}

(* section -> counter-name -> signed integer *)
CounterMaps ==
  LET Sections == UNION {[C -> CounterValues] : C \in SUBSET CounterNames}
  IN  UNION {[S -> Sections] : S \in SUBSET SectionNames}

(* The orders a finite set can be written in. *)
OrdersOf(S) ==
  {f \in [1..Cardinality(S) -> S] : \A i, j \in 1..Cardinality(S) : f[i] = f[j] => i = j}

(* The decimal notation of a natural number and of an integer. *)
RECURSIVE Digits(_)
Digits(n) ==
  IF n < 10 THEN <<DigitChars[n + 1]>>
  ELSE Digits(n \div 10) \o <<DigitChars[(n % 10) + 1]>>

Itoa(v) == IF v < 0 THEN <<"-">> \o Digits(0 - v) ELSE Digits(v)

(* A name as an item of a line of tokens: the empty name leaves between    *)
(* its two separating spaces nothing but white space.                      *)
WrittenName(name) == IF name = <<>> THEN Blank ELSE name

(* The two lines of a section in the two-line format,                      *)
(* `Section: Name1 Name2 ...` and `Section: Val1 Val2 ...`, the counters   *)
(* in the order given.                                                     *)
SectionLines2L(section, counters, order) ==
  <<<<section \o <<":">>>> \o [i \in 1..Len(order) |-> WrittenName(order[i])],
    <<section \o <<":">>>> \o [i \in 1..Len(order) |-> Itoa(counters[order[i]])]>>

(* The lines of a section in the six-separated format, one                 *)
(* `SectionCounter Value` per counter.                                     *)
SectionLinesV6(section, counters, order) ==
  [i \in 1..Len(order) |-> section \o order[i] \o <<" ">> \o Itoa(counters[order[i]])]

SectionLines(format, section, counters, order) ==
  IF format = "2l" THEN SectionLines2L(section, counters, order)
  ELSE SectionLinesV6(section, counters, order)

(* The lines of the sections so[i..], the counters of section s in the     *)
(* order co[s].                                                            *)
RECURSIVE LinesFrom(_, _, _, _, _)
LinesFrom(format, m, so, co, i) ==
  IF i > Len(so) THEN <<>>
  ELSE SectionLines(format, so[i], m[so[i]], co[so[i]])
         \o LinesFrom(format, m, so, co, i + 1)

(* The texts a CounterMap can be written as: its sections and the counters *)
(* of each section in any order.                                           *)
Renderings(format, m) ==
  {LinesFrom(format, m, so, co, 1) :
     so \in OrdersOf(DOMAIN m),
     co \in {f \in [DOMAIN m -> UNION {OrdersOf(DOMAIN m[x]) : x \in DOMAIN m}] :
               \A x \in DOMAIN m : f[x] \in OrdersOf(DOMAIN m[x])}}

(* The map is written. *)
RenderMap ==
  /\ ppc = "render"
  /\ plines' \in Renderings(pmap.format, pmap.map)
  /\ ppc' = IF pmap.format = "2l" THEN "scan" ELSE "v6scan"
  /\ UNCHANGED <<pmap, ppos, presult, pout, workerVars, resolverVars,
                 sockVars>>

InitRoundTrip ==
  /\ WorkerParked
  /\ ResolverIdle
  /\ SockStatsIdle
  /\ pmap \in [format : {"2l", "v6"}, map : CounterMaps]
  /\ plines = <<>>
  /\ ppos = 1
  /\ presult = <<>>
  /\ pout = NoOut
  /\ ppc = "render"

NextRoundTrip ==
  \/ RenderMap
  \/ ScanCouple \/ ScanEnd \/ ScanFail
  \/ ScanV6Line \/ ScanV6End \/ ScanV6Fail

SpecRoundTrip == InitRoundTrip /\ [][NextRoundTrip]_vars

(* ------------------------------ socket-state tally -------------------- *)
(* internal/netstat. A line of a socket table is the sequence of its       *)
(* tokens, a token the sequence of its characters.                         *)

(* The socket states by code; the code 0 has the name UNKNOWN. *)
skStates ==
  <<"UNKNOWN", "ESTABLISHED", "SYN_SENT", "SYN_RECV", "FIN_WAIT1", "FIN_WAIT2",
    "TIME_WAIT", "CLOSE", "CLOSE_WAIT", "LAST_ACK", "LISTEN", "CLOSING">>

(* What field 3 of a line holds: the codes 0, 10, 11, 12 and 255 in        *)
(* hexadecimal, no number, and a number beyond 8 bits.                     *)
StateTokens ==
  {<<"0", "0">>, <<"0", "A">>, <<"0", "B">>, <<"0", "C">>, <<"F", "F">>, <<"z", "z">>,
   <<"1", "0", "0">>}

Filler(n) == [i \in 1..n |-> <<"x">>]

(* A line with st as field 3: of twelve fields, of eleven, of twelve       *)
(* followed by a comment, and of twelve whose last holds the '#' of a      *)
(* comment.                                                                *)
SockLine(st, shape) ==
  CASE shape = "full" -> Filler(3) \o <<st>> \o Filler(8)
    [] shape = "short" -> Filler(3) \o <<st>> \o Filler(7)
    [] shape = "commented" -> Filler(3) \o <<st>> \o Filler(8) \o <<<<"#", "x">>, <<"x">>>>
    [] shape = "cut" -> Filler(3) \o <<st>> \o Filler(7) \o <<<<"#", "x">>>>

SockShapes == {"full", "short", "commented", "cut"}

SockLines == {SockLine(st, shape) : st \in StateTokens, shape \in SockShapes}

(* The title of a socket table. *)
SockTitle == <<<<"s", "l">>, <<"s", "t">>>>

(* The tables: the empty file, and a title followed by lines. *)
SockTables == {<<>>} \cup {<<SockTitle>> \o b : b \in SeqsUpTo(SockLines, MaxSockLines)}

HasHash(tok) == \E k \in 1..Len(tok) : tok[k] = "#"

(* `line = line[:i]` for the index i of the first '#': the tokens before   *)
(* the one that holds it, and what that token has before it.               *)
StripComment(line) ==
  IF \E n \in 1..Len(line) : HasHash(line[n])
    THEN LET n == MinOf({k \in 1..Len(line) : HasHash(line[k])})
             h == MinOf({k \in 1..Len(line[n]) : line[n][k] = "#"})
         IN  SubSeq(line, 1, n - 1)
               \o (IF h > 1 THEN <<SubSeq(line[n], 1, h - 1)>> ELSE <<>>)
    ELSE line

HexChars ==
  <<"0", "1", "2", "3", "4", "5", "6", "7", "8", "9", "a", "b", "c", "d", "e", "f",
    "A", "B", "C", "D", "E", "F">>

IsHex(ch) == \E i \in 1..Len(HexChars) : HexChars[i] = ch

HexVal(ch) ==
  LET i == CHOOSE k \in 1..Len(HexChars) : HexChars[k] = ch
  IN  IF i <= 16 THEN i - 1 ELSE i - 7

RECURSIVE Hexadecimal(_)
Hexadecimal(ds) ==
  IF Len(ds) = 0 THEN 0
  ELSE 16 * Hexadecimal(SubSeq(ds, 1, Len(ds) - 1)) + HexVal(ds[Len(ds)])

(* strconv.ParseUint(tok, 16, 8): whether it returns no error (digits of   *)
(* base 16 only, at least one, a value of 8 bits), and the value.          *)
ParseUintOk(tok) ==
  /\ Len(tok) > 0
  /\ \A k \in 1..Len(tok) : IsHex(tok[k])
  /\ Hexadecimal(tok) < 256

ParseUint(tok) == Hexadecimal(tok)

(* Variant of Incr: the count of the state is set to one. *)
IncrToOne(stats, state) == Put(stats, state, 1)

(* `stats[state]++` *)
Incr(stats, state) ==
  Put(stats, state, IF state \in DOMAIN stats THEN stats[state] + 1 ELSE 1)

(* Variant of TallyOnError: the counts of the lines before the malformed   *)
(* one are returned with the error.                                        *)
TallyOnErrorKept(stats) == stats

(* The tally parseSocktab returns with the error of a line: nil. *)
TallyOnError(stats) == <<>>

(* parseSocktab: the title is discarded. *)
SocktabTitle ==
  /\ ppc = "socktitle"
  /\ ppos' = IF Len(plines) >= 1 THEN 2 ELSE 1
  /\ ppc' = "socktab"
  /\ UNCHANGED <<pmap, plines, presult, pout, workerVars, resolverVars,
                 sockVars>>

(* parseSocktab, one turn of the loop on a line of at least twelve fields  *)
(* whose field 3 is the code of a state of the table: the state is         *)
(* counted.                                                                *)
SocktabCount ==
  /\ ppc = "socktab"
  /\ ppos <= Len(plines)
  /\ LET fields == Fields(StripComment(plines[ppos]))
     IN  /\ Len(fields) >= 12
         /\ ParseUintOk(fields[4])
         /\ ParseUint(fields[4]) < Len(skStates)
         /\ presult' = Incr(presult, skStates[ParseUint(fields[4]) + 1])
  /\ ppos' = ppos + 1
  /\ UNCHANGED <<pmap, plines, pout, ppc, workerVars, resolverVars,
                 sockVars>>

(* parseSocktab, one turn of the loop on a line of fewer than twelve       *)
(* fields or whose field 3 ParseUint refuses: the error is returned, with  *)
(* no tally.                                                               *)
SocktabError ==
  /\ ppc = "socktab"
  /\ ppos <= Len(plines)
  /\ LET fields == Fields(StripComment(plines[ppos]))
     IN  Len(fields) < 12 \/ (Len(fields) >= 12 /\ ~ParseUintOk(fields[4]))
  /\ pout' = [err |-> TRUE, section |-> <<>>, counters |-> TallyOnError(presult)]
  /\ ppc' = "failed"
  /\ UNCHANGED <<pmap, plines, ppos, presult, workerVars, resolverVars,
                 sockVars>>

(* parseSocktab, one turn of the loop on a line whose field 3 is a code    *)
(* beyond the table: skStates[s] is an index out of range and the          *)
(* goroutine panics.                                                       *)
SocktabPanic ==
  /\ ppc = "socktab"
  /\ ppos <= Len(plines)
  /\ LET fields == Fields(StripComment(plines[ppos]))
     IN  /\ Len(fields) >= 12
         /\ ParseUintOk(fields[4])
         /\ ParseUint(fields[4]) >= Len(skStates)
  /\ ppc' = "panicked"
  /\ UNCHANGED <<pmap, plines, ppos, presult, pout, workerVars, resolverVars,
                 sockVars>>

(* parseSocktab: the scanner is at the end of the table; the tally is      *)
(* returned with br.Err(), which is nil.                                   *)
SocktabEnd ==
  /\ ppc = "socktab"
  /\ ppos > Len(plines)
  /\ pout' = [err |-> FALSE, section |-> <<>>, counters |-> presult]
  /\ ppc' = "done"
  /\ UNCHANGED <<pmap, plines, ppos, presult, workerVars, resolverVars,
                 sockVars>>

(* parseSocktab: the scanner stops on a read error; the tally so far is    *)
(* returned with br.Err().                                                 *)
SocktabFail ==
  /\ ppc = "socktab"
  /\ pout' = [err |-> TRUE, section |-> <<>>, counters |-> presult]
  /\ ppc' = "failed"
  /\ UNCHANGED <<pmap, plines, ppos, presult, workerVars, resolverVars,
                 sockVars>>

InitSocktab ==
  /\ WorkerParked
  /\ ResolverIdle
  /\ SockStatsIdle
  /\ plines \in SockTables
  /\ ppos = 1
  /\ presult = <<>>
  /\ pout = NoOut
  /\ ppc = "socktitle"
  /\ pmap = NoMap

NextSocktab ==
  \/ SocktabTitle
  \/ SocktabCount
  \/ SocktabError
  \/ SocktabPanic
  \/ SocktabEnd
  \/ SocktabFail

SpecSocktab == InitSocktab /\ [][NextSocktab]_vars

(* ---------------------- socket statistics of a block ------------------ *)
(* collectStatsInNETNS from its loop over the socket protocols on, and     *)
(* collectAndEmitSockStats (internal/collector), with the two tables of a  *)
(* protocol read by parseSocktab.                                          *)

(* `[]string{"tcp", "udp", "icmp", "udplite", "raw"}` *)
SockProtoOrder == <<"tcp", "udp", "icmp", "udplite", "raw">>

(* strings.Split(c.options.SockProto.Protos, ","): the collect lists. *)
ProtoLists ==
  {S \in SUBSET {SockProtoOrder[i] : i \in 1..Len(SockProtoOrder)} : Cardinality(S) <= MaxProtos}

(* The tables a namespace shows for a protocol and a family: without       *)
(* sockets; with two listening sockets; with a socket and a line of eleven *)
(* fields; with a blank line; with a socket and a line that is a comment   *)
(* only; with a socket whose state code is beyond the table of states;     *)
(* with a socket whose line ends in a comment.                             *)
SockStatsTables ==
  {<<SockTitle>>,
   <<SockTitle, SockLine(<<"0", "A">>, "full"), SockLine(<<"0", "A">>, "full")>>,
   <<SockTitle, SockLine(<<"0", "A">>, "full"), SockLine(<<"0", "A">>, "short")>>,
   <<SockTitle, <<>>>>,
   <<SockTitle, SockLine(<<"0", "0">>, "full"), <<<<"#", "x">>, <<"x">>>>>>,
   <<SockTitle, SockLine(<<"0", "C">>, "full")>>,
   <<SockTitle, SockLine(<<"0", "B">>, "commented")>>}

(* The samples of one family of a protocol: one per state of the tally,    *)
(* with the labels cosanet_state and cosanet_ipversion.                    *)
SamplesOf(socktype, stats, ipversion) ==
  {<<socktype, state, stats[state], ipversion>> : state \in DOMAIN stats}

(* The samples of the families collected after the socket statistics       *)
(* (snmp, snmp6, netstat), which this part of the model does not detail.   *)
ProcNetSamples == {<<"snmp">>, <<"netstat">>}

(* What is kept of a protocol: its tables and how their reads ended ("":   *)
(* not read, "ok", "err").                                                 *)
ProtoRecord(t4) == [t4 |-> t4, r4 |-> "", t6 |-> <<>>, r6 |-> ""]

(* `if !slices.Contains(sockprotoToCollect, sockproto) { continue }` *)
SockStats_Skip ==
  /\ spc = "loop"
  /\ sockproto <= Len(SockProtoOrder)
  /\ SockProtoOrder[sockproto] \notin sockprotoToCollect
  /\ sockproto' = sockproto + 1
  /\ UNCHANGED <<sockprotoToCollect, spc, statsv4, statsv6, sockOut, sockLog>>
  /\ UNCHANGED <<plines, ppos, presult, pout, ppc, pmap, workerVars, resolverVars>>

(* collectAndEmitSockStats is called for a protocol of the list and calls  *)
(* callbacks.v4(): parseSocktab starts on the IPv4 table.  (A table that   *)
(* cannot be opened ends the call like one that cannot be read.)           *)
SockStats_ReadV4(table) ==
  /\ spc = "loop"
  /\ sockproto <= Len(SockProtoOrder)
  /\ SockProtoOrder[sockproto] \in sockprotoToCollect
  /\ spc' = "v4"
  /\ plines' = table
  /\ ppos' = 1
  /\ presult' = <<>>
  /\ pout' = NoOut
  /\ ppc' = "socktitle"
  /\ statsv4' = <<>>
  /\ statsv6' = <<>>
  /\ sockLog' = Put(sockLog, SockProtoOrder[sockproto], ProtoRecord(table))
  /\ UNCHANGED <<sockprotoToCollect, sockproto, sockOut, pmap, workerVars, resolverVars>>

(* callbacks.v4() returned an error: it is logged and                      *)
(* collectAndEmitSockStats returns; the loop goes on with the next         *)
(* protocol.                                                               *)
SockStats_V4Failed ==
  /\ spc = "v4"
  /\ ppc = "failed"
  /\ spc' = "loop"
  /\ sockproto' = sockproto + 1
  /\ ppc' = "idle"
  /\ sockLog' = [sockLog EXCEPT ![SockProtoOrder[sockproto]].r4 = "err"]
  /\ UNCHANGED <<sockprotoToCollect, statsv4, statsv6, sockOut>>
  /\ UNCHANGED <<plines, ppos, presult, pout, pmap, workerVars, resolverVars>>

(* callbacks.v4() returned statsv4; callbacks.v6() is called: parseSocktab *)
(* starts on the IPv6 table.                                               *)
SockStats_ReadV6(table) ==
  /\ spc = "v4"
  /\ ppc = "done"
  /\ statsv4' = pout.counters
  /\ spc' = "v6"
  /\ plines' = table
  /\ ppos' = 1
  /\ presult' = <<>>
  /\ pout' = NoOut
  /\ ppc' = "socktitle"
  /\ sockLog' = [sockLog EXCEPT ![SockProtoOrder[sockproto]].r4 = "ok",
                                ![SockProtoOrder[sockproto]].t6 = table]
  /\ UNCHANGED <<sockprotoToCollect, sockproto, statsv6, sockOut, pmap, workerVars,
                 resolverVars>>

(* Variant of EmittedOnV6Error: the IPv4 samples are sent all the same. *)
EmittedOnV6ErrorV4(socktype, stats) == SamplesOf(socktype, stats, "ipv4")

(* What collectAndEmitSockStats sends into the sink when callbacks.v6()    *)
(* returned an error: it returns before its first send.                    *)
EmittedOnV6Error(socktype, stats) == {}

(* callbacks.v6() returned an error: it is logged and                      *)
(* collectAndEmitSockStats returns.                                        *)
SockStats_V6Failed ==
  /\ spc = "v6"
  /\ ppc = "failed"
  /\ spc' = "loop"
  /\ sockproto' = sockproto + 1
  /\ ppc' = "idle"
  /\ sockOut' = sockOut \cup EmittedOnV6Error(SockProtoOrder[sockproto], statsv4)
  /\ sockLog' = [sockLog EXCEPT ![SockProtoOrder[sockproto]].r6 = "err"]
  /\ UNCHANGED <<sockprotoToCollect, statsv4, statsv6>>
  /\ UNCHANGED <<plines, ppos, presult, pout, pmap, workerVars, resolverVars>>

(* callbacks.v6() returned statsv6; `for state, value := range statsv4`    *)
(* sends the IPv4 samples, in the order of the map's iteration.            *)
SockStats_EmitV4 ==
  /\ spc = "v6"
  /\ ppc = "done"
  /\ statsv6' = pout.counters
  /\ spc' = "emit6"
  /\ ppc' = "idle"
  /\ sockOut' = sockOut \cup SamplesOf(SockProtoOrder[sockproto], statsv4, "ipv4")
  /\ sockLog' = [sockLog EXCEPT ![SockProtoOrder[sockproto]].r6 = "ok"]
  /\ UNCHANGED <<sockprotoToCollect, sockproto, statsv4>>
  /\ UNCHANGED <<plines, ppos, presult, pout, pmap, workerVars, resolverVars>>

(* `for state, value := range statsv6` sends the IPv6 samples and          *)
(* collectAndEmitSockStats returns.                                        *)
SockStats_EmitV6 ==
  /\ spc = "emit6"
  /\ spc' = "loop"
  /\ sockproto' = sockproto + 1
  /\ sockOut' = sockOut \cup SamplesOf(SockProtoOrder[sockproto], statsv6, "ipv6")
  /\ UNCHANGED <<sockprotoToCollect, statsv4, statsv6, sockLog>>
  /\ UNCHANGED <<plines, ppos, presult, pout, ppc, pmap, workerVars, resolverVars>>

(* The loop over the protocols is over: the snmp and netstat families are  *)
(* parsed and published, and collectStatsInNETNS returns.                  *)
SockStats_ProcNet ==
  /\ spc = "loop"
  /\ sockproto > Len(SockProtoOrder)
  /\ spc' = "returned"
  /\ sockOut' = sockOut \cup ProcNetSamples
  /\ UNCHANGED <<sockprotoToCollect, sockproto, statsv4, statsv6, sockLog>>
  /\ UNCHANGED <<plines, ppos, presult, pout, ppc, pmap, workerVars, resolverVars>>

(* A collection block with the socket statistics, snmp and netstat         *)
(* enabled, at its loop over the socket protocols.                         *)
InitSockStats ==
  /\ WorkerParked
  /\ ResolverIdle
  /\ plines = <<>>
  /\ ppos = 1
  /\ presult = <<>>
  /\ pout = NoOut
  /\ ppc = "idle"
  /\ pmap = NoMap
  /\ sockprotoToCollect \in ProtoLists
  /\ spc = "loop"
  /\ sockproto = 1
  /\ statsv4 = <<>>
  /\ statsv6 = <<>>
  /\ sockOut = {}
  /\ sockLog = <<>>

NextSockStats ==
  \/ SockStats_Skip
  \/ \E table \in SockStatsTables : SockStats_ReadV4(table)
  \/ SockStats_V4Failed
  \/ \E table \in SockStatsTables : SockStats_ReadV6(table)
  \/ SockStats_V6Failed
  \/ SockStats_EmitV4
  \/ SockStats_EmitV6
  \/ SockStats_ProcNet
  \/ SocktabTitle
  \/ SocktabCount
  \/ SocktabError
  \/ SocktabPanic
  \/ SocktabEnd
  \/ SocktabFail

SpecSockStats == InitSockStats /\ [][NextSockStats]_vars

(* ------------------------------ properties ---------------------------- *)

(* The steps of the worker while it replays and acknowledges. *)
ReplayStep == FeedSample \/ SendDone

(* A sample is sent into the sink passed to CollectFromMainThread. *)
SinkSend == Len(emitted') > Len(emitted)

(* A sample is sent to a requester's Feed. *)
FeedSend == \E c \in Callers : Len(got'[c]) > Len(got[c])

(* s is a prefix of t. *)
IsPrefix(s, t) == Len(s) <= Len(t) /\ \A i \in 1..Len(s) : s[i] = t[i]

(* C1, as stated: in any sequence of collect calls whose consecutive calls *)
(* are less than cache_duration apart, the worker collection runs at most  *)
(* once.                                                                   *)
C1_Original == maxGap < CacheDuration => nColl <= 1

(* C1, amended: in any sequence of collect calls that are all examined no  *)
(* later than cache_duration after the first collection of the sequence    *)
(* finished, and provided that collection installed a non-empty vector,    *)
(* the worker collection runs at most once.                                *)
C1_OncePerWindow ==
  (nInstalled >= 1 /\ firstLen > 0 /\ now <= firstEnd + CacheDuration) => nColl <= 1

C1_Witness ==
  /\ nColl = 1
  /\ firstLen > 0
  /\ now = firstEnd + CacheDuration
  /\ \E c \in Callers : served[c] = "hit" /\ cst[c] = "acked"

(* C2, as stated: two collections are at least cache_duration apart,       *)
(* whatever the collections returned.                                      *)
C2_Original ==
  [][(nColl' > nColl /\ nInstalled >= 1) => now' - cacheTimestamp >= CacheDuration]_vars

(* C2, amended: a collection that follows one that installed a non-empty   *)
(* vector starts at least cache_duration after that one finished.          *)
C2_MinInterval ==
  [][(nColl' > nColl /\ nInstalled >= 1 /\ Len(metricsCache) > 0)
       => now' - cacheTimestamp >= CacheDuration]_vars

C2_Witness ==
  /\ nColl >= 2
  /\ wpc = "cfmt"
  /\ Len(metricsCache) > 0
  /\ now - cacheTimestamp >= CacheDuration

(* C3: at most one collection is in flight; a collection starts only after *)
(* the previous one was installed; while one is in flight every other      *)
(* caller is blocked in its send (or not calling) and nothing is fed; a    *)
(* caller is fed only from the installed cache.                            *)
C3_OneInFlight ==
  /\ nColl - nInstalled \in {0, 1}
  /\ \A c \in Callers : cst[c] = "await" => c = cur
  /\ nColl > nInstalled => \A c \in Callers : cst[c] = "await" => got[c] = <<>>
  /\ \A c \in Callers : (cst[c] = "await" /\ got[c] # <<>>) => IsPrefix(got[c], metricsCache)

C3_Witness ==
  /\ nColl = 2
  /\ nInstalled = 1
  /\ wpc = "block"
  /\ \E c \in Callers : cst[c] = "send"

(* C4: whenever the worker waits for a request, examines one, replays the  *)
(* cache or acknowledges, its thread is in the initial namespace.          *)
C4_InitialNamespace == wpc \in {"wait", "check", "replay"} => curNS = InitNS

C4_Witness ==
  /\ wpc = "replay"
  /\ Len(blockLog) >= 2
  /\ blockLog[1] # HOST
  /\ curNS = InitNS

(* C5, as stated: every send of a sample out of the worker, into the sink  *)
(* passed to CollectFromMainThread and to a requester's Feed, happens in   *)
(* the initial namespace.                                                  *)
C5_Original == [][(SinkSend \/ FeedSend) => curNS = InitNS]_vars

(* C5, amended: every send of a sample to a requester's Feed happens in    *)
(* the initial namespace.                                                  *)
C5_FeedInInitialNamespace == [][FeedSend => curNS = InitNS]_vars

C5_Witness ==
  \E c \in Callers : \E i \in 1..Len(got[c]) : got[c][i][2] # HOST

(* C6, as stated: after a miss the installed vector holds every sample the *)
(* collection emitted, in emission order.                                  *)
C6_InstalledAll == (nColl >= 1 /\ nInstalled = nColl) => metricsCache = emitted

(* C7: a scrape answered from the cache is fed exactly the samples that    *)
(* were fed to the scrape which caused the collection.                     *)
C7_SameVector ==
  [][\A c \in Callers :
       (cst[c] = "await" /\ cst'[c] = "acked" /\ served[c] = "hit") => got[c] = causeFed]_vars

C7_Witness ==
  \E c \in Callers :
    /\ cst[c] = "acked"
    /\ served[c] = "hit"
    /\ Len(got[c]) >= 2
    /\ got[c] = causeFed

(* C8, as stated: when the requester's sink is abandoned before the replay *)
(* is over, the worker is not blocked: it has a step to take.              *)
C8_AbandonAborts ==
  (wpc = "replay" /\ ~sinkOpen[cur] /\ ri <= Len(ReplaySource)) => ENABLED ReplayStep

(* C9: requests are served in arrival order, one at a time: a request is   *)
(* received only when every request received before it is acknowledged.    *)
C9_ArrivalOrder ==
  \A a, b \in Callers :
    (0 < acceptNo[a] /\ acceptNo[a] < acceptNo[b]) => (cst[a] = "acked" /\ cur # a)

C9_Witness ==
  \E a, b \in Callers :
    /\ 0 < acceptNo[a]
    /\ acceptNo[a] < acceptNo[b]
    /\ cst[a] = "acked"
    /\ cst[b] = "await"
    /\ got[b] # <<>>

(* C10: when the restoration of the initial namespace fails the process    *)
(* terminates: no further sandbox is entered, no block runs, the cache is  *)
(* not updated and no acknowledgement is sent.                             *)
C10_RestoreFailureFatal ==
  [][restoreFailed' =>
       /\ ~alive'
       /\ UNCHANGED <<curNS, blockLog, emitted, cacheVars, nInstalled, nAcked, cst>>]_vars

C10_Witness ==
  /\ restoreFailed
  /\ ~alive
  /\ idx < Len(infos)
  /\ cst[cur] = "await"

(* The pods the samples of a vector are labelled with. *)
PodsOf(v) == {v[i][2] : i \in 1..Len(v)}

(* s has no element twice. *)
NoRepeat(s) == \A i, j \in 1..Len(s) : s[i] = s[j] => i = j

(* C11: a sandbox that does not match the pod filter is suppressed: its    *)
(* namespace is never opened or entered, its collection block never runs   *)
(* and no sample labelled with it is collected, cached or fed; a sandbox   *)
(* that matches and is entered has its collection block run exactly once   *)
(* in the collection, in the order of the list.                            *)
C11_FilterSuppresses ==
  /\ \A p \in Pods \ podFilter :
       /\ p \notin openSb
       /\ nsHandle # p
       /\ curNS # NsOfPod(p)
       /\ \A i \in 1..Len(blockLog) : blockLog[i] # p
       /\ p \notin PodsOf(emitted) \cup PodsOf(metricTemp) \cup PodsOf(metricsCache)
       /\ \A c \in Callers : p \notin PodsOf(got[c])
  /\ NoRepeat(blockLog)
  /\ wpc \in {"loop", "enter", "block", "restore"}
       => \A i \in 1..Len(blockLog) :
            blockLog[i] # HOST => \E j \in 1..Len(infos) : j <= idx /\ infos[j] = blockLog[i]
  /\ (wpc \in {"block", "restore"} /\ blockPod # HOST)
       => (blockLog # <<>> /\ blockLog[Len(blockLog)] = infos[idx] /\ curNS = NsOfPod(infos[idx]))

C11_Witness ==
  /\ wpc = "install"
  /\ podFilter = {2}
  /\ blockLog = <<2>>
  /\ PodsOf(emitted) = {2}

(* C12, as stated: with an active controller resolver every emitted sample *)
(* carries the labels cosanet_pod_controller_kind and                      *)
(* cosanet_pod_controller_name.                                            *)
C12_ControllerLabels ==
  emitted # <<>>
    => {"cosanet_pod_controller_kind", "cosanet_pod_controller_name"} \subseteq dynamic_label_def

(* The owner kinds that are top-level by themselves. *)
DirectKinds == {"StatefulSet", "DaemonSet", "Deployment", "CronJob", "Node"}

(* C13: when a startup probe fails NewResolver returns the no-op resolver  *)
(* and the process goes on; on the no-op resolver GetControllerForUid      *)
(* finds nothing, ResolvePodControllerRef returns its fixed error and no   *)
(* cache is ever created or changed.                                       *)
C13_NoopDegrades ==
  /\ (lastOp.op = "new" /\ ~lastOp.ok) => rkind = "noop"
  /\ rkind = "noop" =>
       /\ parentCache = <<>>
       /\ podCache = <<>>
       /\ lastOp.op = "get" => (~lastOp.ok /\ lastOp.res = NoRef)
       /\ lastOp.op = "resolve" => (~lastOp.ok /\ lastOp.res = NoRef /\ lastOp.via = "noop")

C13_Witness == rkind = "noop" /\ lastOp.op = "resolve" /\ ~lastOp.ok

(* C14, as stated: for a pod without owner references resolve returns a    *)
(* reference whose UID, api-version, kind, namespace and name are all      *)
(* "ORPHAN", and leaves pod-to-ref unchanged.                              *)
C14_Original ==
  (rkind = "active" /\ lastOp.op = "resolve" /\ lastOp.ctrl = "none")
    => /\ lastOp.res = [UID |-> "ORPHAN", APIVersion |-> "ORPHAN", Kind |-> "ORPHAN",
                        Namespace |-> "ORPHAN", Name |-> "ORPHAN"]
       /\ lastOp.podKept

(* C14, amended: for a pod without owner references for which pod-to-ref   *)
(* holds no entry, resolve returns a reference whose UID, api-version,     *)
(* kind and name are "ORPHAN" and whose namespace is the pod's namespace,  *)
(* and leaves pod-to-ref unchanged.                                        *)
C14_OrphanRef ==
  (rkind = "active" /\ lastOp.op = "resolve" /\ lastOp.ctrl = "none"
     /\ lastOp.via # "podCache")
    => /\ lastOp.ok
       /\ lastOp.res = [UID |-> "ORPHAN", APIVersion |-> "ORPHAN", Kind |-> "ORPHAN",
                        Namespace |-> PodNamespace, Name |-> "ORPHAN"]
       /\ lastOp.podKept

C14_Witness ==
  /\ lastOp.op = "resolve"
  /\ lastOp.ctrl = "none"
  /\ lastOp.via = "orphan"
  /\ lastOp.res.Kind = "ORPHAN"
  /\ parentCache # <<>>
  /\ podCache = <<>>

(* C15, as stated: for a pod whose controlling owner reference has a       *)
(* direct top-level kind, resolve returns a reference of that kind, after  *)
(* any sequence of earlier calls and events.                               *)
C15_Original ==
  (rkind = "active" /\ lastOp.op = "resolve" /\ lastOp.ctrl \in DirectKinds)
    => (lastOp.ok /\ lastOp.res.Kind = lastOp.ctrl)

(* C15, amended: for a pod whose controlling owner reference has a direct  *)
(* top-level kind and for which pod-to-ref holds no entry, resolve returns *)
(* a reference of that kind, after any sequence of earlier calls and       *)
(* events (an entry of pod-to-ref is returned as it is, whatever the       *)
(* pod's owner references are now).                                        *)
C15_DirectKind ==
  (rkind = "active" /\ lastOp.op = "resolve" /\ lastOp.ctrl \in DirectKinds
     /\ lastOp.via # "podCache")
    => (lastOp.ok /\ lastOp.res.Kind = lastOp.ctrl /\ lastOp.via = "direct")

C15_Witness ==
  /\ lastOp.op = "resolve"
  /\ lastOp.ctrl = "Node"
  /\ lastOp.via = "direct"
  /\ lastOp.res.Kind = "Node"
  /\ parentCache # <<>>

(* C16: for a pod controlled by a ReplicaSet that a Deployment controls,   *)
(* the reference resolve returns is of kind Deployment, and for a pod      *)
(* controlled by a Job that a CronJob controls of kind CronJob, whether    *)
(* it comes from a fetch of the owner or from the owner-to-ref cache.      *)
C16_WalksToTop ==
  \A k \in {"ReplicaSet", "Job"} :
    (rkind = "active" /\ lastOp.op = "resolve" /\ lastOp.ctrl = k /\ lastOp.ok
       /\ lastOp.via \in {"fetch", "parentCache"}
       /\ ControllingKind(cluster[k]) \in {"Deployment", "CronJob"})
      => lastOp.res.Kind = (IF k = "ReplicaSet" THEN "Deployment" ELSE "CronJob")

C16_Witness ==
  /\ lastOp.op = "resolve"
  /\ lastOp.ctrl = "ReplicaSet"
  /\ lastOp.via = "parentCache"
  /\ lastOp.res.Kind = "Deployment"
  /\ Len(cluster["ReplicaSet"]) = 2

(* C17, as stated: the owner-to-ref cache never holds more entries than    *)
(* the capacity ResolverOptions.ParentCacheCapacity configures (its        *)
(* default when the option is 0).                                          *)
C17_ParentCapacity ==
  rkind = "active" => Len(parentCache) <= ParentCapacityOwn(ropts)

(* C18, as stated: with a node name configured, a pod-add or pod-update    *)
(* event for a pod assigned to another node does not invoke the            *)
(* resolution.                                                             *)
C18_NodeFilter ==
  (lastOp.op \in {"add", "update"} /\ ropts.Nodename # "" /\ lastOp.node # ropts.Nodename)
    => ~lastOp.resolve

(* The fields of the two lines given to the pair parser. *)
HeaderFields == Fields(plines[1])
ValueFields == Fields(plines[2])

(* The two lines have leading tokens, and the same one. *)
LeadsEqual ==
  Len(HeaderFields) > 0 /\ Len(ValueFields) > 0 /\ HeaderFields[1] = ValueFields[1]

(* The positions after the leading token, up to the shorter line, whose    *)
(* value is a valid integer.                                               *)
ValidPositions ==
  {i \in 2..Len(HeaderFields) : i <= Len(ValueFields) /\ AtoiOk(ValueFields[i])}

(* sec is the token lead without its trailing colon. *)
IsLeadWithoutColon(sec, lead) ==
  IF Len(lead) > 0 /\ lead[Len(lead)] = ":" THEN lead = Append(sec, ":") ELSE lead = sec

(* C19, as stated: for a pair with equal leading tokens the result is the  *)
(* section named by the leading token without its trailing colon, with     *)
(* the name at position i mapped to the integer at position i for exactly  *)
(* the positions whose value is a valid integer.                           *)
C19_Original ==
  (ppc = "done" /\ LeadsEqual)
    => /\ ~pout.err
       /\ IsLeadWithoutColon(pout.section, HeaderFields[1])
       /\ DOMAIN pout.counters = {HeaderFields[i] : i \in ValidPositions}
       /\ \A i \in ValidPositions : pout.counters[HeaderFields[i]] = Atoi(ValueFields[i])

(* C19, amended: as stated, a name that stands at several positions with a *)
(* valid integer being mapped to the integer at the last of them.          *)
C19_PositionalPairs ==
  (ppc = "done" /\ LeadsEqual)
    => /\ ~pout.err
       /\ IsLeadWithoutColon(pout.section, HeaderFields[1])
       /\ DOMAIN pout.counters = {HeaderFields[i] : i \in ValidPositions}
       /\ \A i \in ValidPositions :
            (\A j \in ValidPositions : j > i => HeaderFields[j] # HeaderFields[i])
              => pout.counters[HeaderFields[i]] = Atoi(ValueFields[i])

C19_Witness ==
  /\ ppc = "done"
  /\ plines[1] = <<<<"T", ":">>, <<"a">>, <<"7">>>>
  /\ plines[2] = <<<<"T", ":">>, <<"a">>, <<"-", "3">>>>
  /\ pout.section = <<"T">>
  /\ DOMAIN pout.counters = {<<"7">>}
  /\ pout.counters[<<"7">>] = 0 - 3

(* The pairs of lines of the input, in the order the scanner returns them. *)
CoupleAt(i) == parseSectionCouple(plines[2 * i - 1], plines[2 * i])

WellFormedCouples == {i \in 1..(Len(plines) \div 2) : ~CoupleAt(i).err}

(* The leading tokens of the two lines of pair i differ. *)
LeadsDiffer(i) ==
  /\ Len(Fields(plines[2 * i - 1])) > 0
  /\ Len(Fields(plines[2 * i])) > 0
  /\ Fields(plines[2 * i - 1])[1] # Fields(plines[2 * i])[1]

(* C20: a pair of lines whose leading tokens differ is an error of the     *)
(* pair parser and not of the whole parse; both its lines are consumed     *)
(* and the parse goes on with the next line as a header: the result holds  *)
(* the section of every well-formed pair of the input, with the counters   *)
(* of the last pair of that section, and nothing else.                     *)
C20_MismatchSkipped ==
  /\ \A i \in 1..(Len(plines) \div 2) : LeadsDiffer(i) => CoupleAt(i).err
  /\ ppc = "done"
       => /\ ~pout.err
          /\ DOMAIN pout.counters = {CoupleAt(i).section : i \in WellFormedCouples}
          /\ \A i \in WellFormedCouples :
               (\A j \in WellFormedCouples : j > i => CoupleAt(j).section # CoupleAt(i).section)
                 => pout.counters[CoupleAt(i).section] = CoupleAt(i).counters

C20_Witness ==
  /\ ppc = "done"
  /\ plines = <<<<<<"T", ":">>, <<"a">>>>, <<<<"I">>, <<"-", "3">>>>,
                <<<<"I">>, <<"a">>>>, <<<<"I">>, <<"-", "3">>>>>>
  /\ DOMAIN pout.counters = {<<"I">>}
  /\ pout.counters[<<"I">>][<<"a">>] = 0 - 3

(* The input of the whole-input parser has an odd number of lines: its     *)
(* last line is a header line that no value line follows.                  *)
OddLines == Len(plines) % 2 = 1

(* C21: for an input with an odd number of lines the parse returns no      *)
(* error and its result is the one of the complete pairs before the last   *)
(* line (each well-formed pair present under its section, the last pair of *)
(* a section giving its counters), the last line adding no entry; for the  *)
(* empty input the parse returns the empty map and no error.               *)
C21_OddTrailingIgnored ==
  /\ ppc = "done" /\ OddLines
       => /\ ~pout.err
          /\ DOMAIN pout.counters = {CoupleAt(i).section : i \in WellFormedCouples}
          /\ \A i \in WellFormedCouples :
               (\A j \in WellFormedCouples : j > i => CoupleAt(j).section # CoupleAt(i).section)
                 => pout.counters[CoupleAt(i).section] = CoupleAt(i).counters
  /\ ppc = "done" /\ plines = <<>>
       => ~pout.err /\ pout.counters = <<>>

C21_Witness ==
  /\ ppc = "done"
  /\ plines = <<<<<<"T", ":">>, <<"a">>>>, <<<<"T", ":">>, <<"7">>>>, <<<<"I">>, <<"a">>>>>>
  /\ ~pout.err
  /\ DOMAIN pout.counters = {<<"T">>}
  /\ pout.counters[<<"T">>][<<"a">>] = 7

(* Whether a string is an integer in decimal notation: digits after an     *)
(* optional sign.                                                          *)
IsInteger(str) ==
  \/ Len(str) >= 1 /\ \A k \in 1..Len(str) : IsDigit(str[k])
  \/ Len(str) >= 2 /\ str[1] \in {"+", "-"} /\ \A k \in 2..Len(str) : IsDigit(str[k])

(* The integer an unsigned string of digits denotes. *)
ValueOfDigits(str) ==
  LET pow[k \in 0..Len(str)] == IF k = 0 THEN 1 ELSE 10 * pow[k - 1]
      sum[k \in 0..Len(str)] ==
        IF k = 0 THEN 0 ELSE sum[k - 1] + DigitVal(str[k]) * pow[Len(str) - k]
  IN  sum[Len(str)]

ValueOfInteger(str) ==
  IF str[1] = "-" THEN 0 - ValueOfDigits(Tail(str))
  ELSE IF str[1] = "+" THEN ValueOfDigits(Tail(str))
  ELSE ValueOfDigits(str)

SpaceFree(str) == \A k \in 1..Len(str) : str[k] \notin WhiteSpace

(* The line is <A>6<B> <n> with its first '6' at position i and the space  *)
(* before <n> at position j: <A> and <B> are names (<A> without a '6',     *)
(* <B> not empty, neither with white space) and <n> is an integer.         *)
HasForm(line, i, j) ==
  /\ line[i] = "6"
  /\ \A k \in 1..(i - 1) : line[k] # "6"
  /\ SpaceFree(SubSeq(line, 1, i - 1))
  /\ j > i + 1
  /\ line[j] = " "
  /\ SpaceFree(SubSeq(line, i + 1, j - 1))
  /\ IsInteger(SubSeq(line, j + 1, Len(line)))

(* The words of a string: where they start and where they end. *)
WordStarts(str) ==
  {k \in 1..Len(str) : str[k] \notin WhiteSpace /\ (k = 1 \/ str[k - 1] \in WhiteSpace)}
WordEnds(str) ==
  {k \in 1..Len(str) : str[k] \notin WhiteSpace /\ (k = Len(str) \/ str[k + 1] \in WhiteSpace)}
LastWord(str) == SubSeq(str, MaxOf(WordStarts(str)), MaxOf(WordEnds(str)))

(* The part of a line after its first '6'. *)
AfterSix(line) ==
  SubSeq(line, MinOf({k \in 1..Len(line) : line[k] = "6"}) + 1, Len(line))

(* The line is one of those to be dropped: it has no '6', or its first '6' *)
(* is its last character, or what follows the first '6' is not two fields, *)
(* or the second of them is no integer.                                    *)
ToBeDropped(line) ==
  \/ \A k \in 1..Len(line) : line[k] # "6"
  \/ MinOf({k \in 1..Len(line) : line[k] = "6"}) = Len(line)
  \/ Cardinality(WordStarts(AfterSix(line))) # 2
  \/ ~IsInteger(LastWord(AfterSix(line)))

(* The lines of the input the line parser accepts. *)
KeptLines == {i \in 1..Len(plines) : ~parseSnmp6Line(plines[i]).err}

SameCounter(i, j) ==
  /\ parseSnmp6Line(plines[i]).section = parseSnmp6Line(plines[j]).section
  /\ parseSnmp6Line(plines[i]).counter = parseSnmp6Line(plines[j]).counter

(* C22: a line <A>6<B> <n> gives the section <A>6, the counter <B> and the *)
(* value n; a line with no '6', with its first '6' as last character, with *)
(* a field count other than two after the split or with a non-integer      *)
(* value is refused; in the result of a whole input the refused lines      *)
(* leave no trace: its entries are those of the accepted lines, each       *)
(* counter with the value of the last accepted line that names it.         *)
C22_SixSeparated ==
  /\ \A n \in 1..Len(plines) :
       LET line == plines[n]
           e == parseSnmp6Line(line)
       IN  /\ \A i \in 1..Len(line) : \A j \in 1..Len(line) :
                 HasForm(line, i, j)
                   => /\ ~e.err
                      /\ e.section = SubSeq(line, 1, i)
                      /\ e.counter = SubSeq(line, i + 1, j - 1)
                      /\ e.val = ValueOfInteger(SubSeq(line, j + 1, Len(line)))
           /\ ToBeDropped(line) => e.err
  /\ ppc = "done"
       => /\ ~pout.err
          /\ DOMAIN pout.counters = {parseSnmp6Line(plines[i]).section : i \in KeptLines}
          /\ \A sec \in DOMAIN pout.counters :
               DOMAIN pout.counters[sec] =
                 {parseSnmp6Line(plines[i]).counter :
                    i \in {k \in KeptLines : parseSnmp6Line(plines[k]).section = sec}}
          /\ \A i \in KeptLines :
               (\A j \in KeptLines : j > i => ~SameCounter(i, j))
                 => pout.counters[parseSnmp6Line(plines[i]).section]
                                 [parseSnmp6Line(plines[i]).counter]
                      = parseSnmp6Line(plines[i]).val

(* A refused line between two accepted ones, the first '6' of the second   *)
(* being the separator and its second '6' the value.                       *)
C22_Witness ==
  /\ ppc = "done"
  /\ plines = <<<<"a", "6", "a", " ", "7">>, <<"p", "a", "6">>, <<"p", "6", "a", " ", "6">>>>
  /\ DOMAIN pout.counters = {<<"a", "6">>, <<"p", "6">>}
  /\ pout.counters[<<"a", "6">>][<<"a">>] = 7
  /\ pout.counters[<<"p", "6">>][<<"a">>] = 6

(* C23, as stated: a CounterMap with names free of white space and values  *)
(* in range, written in the format of a parser, is read back as it was.    *)
C23_Original ==
  ppc = "done" => (~pout.err /\ pout.counters = pmap.map)

(* The names of the map can be read back: no counter has the empty name    *)
(* and, in the six-separated format, every section has a counter and a     *)
(* name with one '6', its last character.                                  *)
ReadableNames ==
  /\ \A sec \in DOMAIN pmap.map : <<>> \notin DOMAIN pmap.map[sec]
  /\ pmap.format = "v6"
       => \A sec \in DOMAIN pmap.map :
            /\ DOMAIN pmap.map[sec] # {}
            /\ Len(sec) > 0
            /\ \A k \in 1..Len(sec) : sec[k] = "6" <=> k = Len(sec)

(* C23, amended: the round trip holds for the maps whose names can be read *)
(* back.                                                                   *)
C23_RoundTrip ==
  (ppc = "done" /\ ReadableNames) => (~pout.err /\ pout.counters = pmap.map)

C23_Witness ==
  /\ ppc = "done"
  /\ pmap.format = "v6"
  /\ DOMAIN pmap.map = {<<"p", "6">>}
  /\ DOMAIN pmap.map[<<"p", "6">>] = {<<"a">>, <<"6">>}
  /\ pmap.map[<<"p", "6">>][<<"a">>] = 0 - 3
  /\ pmap.map[<<"p", "6">>][<<"6">>] = 10
  /\ pout.counters = pmap.map

(* The sum of the values of a tally. *)
RECURSIVE SumOver(_, _)
SumOver(stats, names) ==
  IF names = {} THEN 0
  ELSE LET n == CHOOSE x \in names : TRUE
       IN  stats[n] + SumOver(stats, names \ {n})

SumOfTally(stats) == SumOver(stats, DOMAIN stats)

(* The lines of the table after its title. *)
TableLines == 2..Len(plines)

(* Field 3 of line i, and whether it is the code of a state in the range   *)
(* lo..hi.                                                                 *)
Field3(i) == Fields(StripComment(plines[i]))[4]

Field3In(i, lo, hi) ==
  /\ Len(Fields(StripComment(plines[i]))) >= 4
  /\ ParseUintOk(Field3(i))
  /\ ParseUint(Field3(i)) \in lo..hi

(* C24, as stated: the sum of the values of the tally is the number of     *)
(* lines after the title whose field 3 is one of the codes 1..11.          *)
C24_Original ==
  ppc = "done"
    => SumOfTally(pout.counters) = Cardinality({i \in TableLines : Field3In(i, 1, 11)})

(* C24, amended: when a tally is returned without error, the sum of its    *)
(* values is the number of lines after the title, and field 3 of each of   *)
(* them is one of the codes 0..11.                                         *)
C24_TallySum ==
  ppc = "done"
    => /\ ~pout.err
       /\ SumOfTally(pout.counters) = Cardinality(TableLines)
       /\ \A i \in TableLines : Field3In(i, 0, 11)

C24_Witness ==
  /\ ppc = "done"
  /\ Len(plines) = 4
  /\ Field3(2) = <<"0", "A">>
  /\ Field3(3) = <<"0", "0">>
  /\ Field3(4) = <<"0", "A">>
  /\ DOMAIN pout.counters = {"LISTEN", "UNKNOWN"}
  /\ pout.counters["LISTEN"] = 2
  /\ pout.counters["UNKNOWN"] = 1

(* C25: the tally ends normally on a line whose field 3 is a code of 8     *)
(* bits outside 1..11, and the tally returned counts under UNKNOWN the     *)
(* lines with such a code.                                                 *)
C25_UnknownCounted ==
  /\ ppc # "panicked"
  /\ (ppc = "done" /\ \E i \in TableLines : ~Field3In(i, 1, 11))
       => /\ "UNKNOWN" \in DOMAIN pout.counters
          /\ pout.counters["UNKNOWN"]
               = Cardinality({i \in TableLines : Field3In(i, 0, 0) \/ Field3In(i, 12, 255)})

(* The worker decides on the request it holds. *)
Decides == wpc = "check" /\ wpc' # "check"

(* C26: the request is answered from the cache, with no collection and no  *)
(* change of the cache, if the clock read at the decision is at most       *)
(* cache_duration after the cache timestamp and the cached vector is not   *)
(* empty; otherwise (no collection yet, cache expired or vector empty) one *)
(* collection is started, and no other before the request is answered;    *)
(* vector and timestamp are replaced together and only when that           *)
(* collection has returned, the timestamp being the clock read then; what  *)
(* is replayed to the request is the vector the cache then holds.          *)
C26_CacheDecision ==
  /\ [][Decides =>
          IF Since(cacheTimestamp, now') <= CacheDuration /\ Len(metricsCache) > 0
            THEN wpc' = "replay" /\ nColl' = nColl /\ UNCHANGED cacheVars
            ELSE wpc' = "cfmt" /\ nColl' = nColl + 1]_vars
  /\ [][~Decides => nColl' = nColl]_vars
  /\ [][cacheVars' # cacheVars =>
          /\ wpc = "install"
          /\ wpc' = "replay"
          /\ origOpen = FALSE
          /\ nInstalled' = nColl
          /\ metricsCache' = metricTemp
          /\ cacheTimestamp' = now'
          /\ now' >= now]_vars
  /\ [][\A c \in Callers :
          Len(got'[c]) > Len(got[c])
            => /\ c = cur
               /\ nInstalled = nColl
               /\ got'[c] = SubSeq(metricsCache, 1, Len(got'[c]))]_vars

C26_Witness ==
  /\ nColl = 2
  /\ nInstalled = 2
  /\ wpc = "replay"
  /\ served[cur] = "miss"
  /\ got[cur] = metricsCache
  /\ got[cur] # <<>>
  /\ \E c \in Callers : served[c] = "hit" /\ cst[c] = "acked" /\ got[c] # <<>>

(* C27: Collect returns only after it received the acknowledgement (and    *)
(* only then closes doneCh); the worker's acknowledgements go one by one   *)
(* to the requests in the order it received them, each to the request it   *)
(* holds, whose caller is still waiting on doneCh, and only after every    *)
(* sample of the cached vector was delivered to that request's sink; as    *)
(* long as the worker holds a request its caller has not left Collect, so  *)
(* doneCh is open whenever the worker sends on it.                         *)
C27_AckOrdering ==
  /\ [](cur # None => cst[cur] = "await")
  /\ [](nAccepted - nAcked = IF cur # None THEN 1 ELSE 0)
  /\ [][\A c \in Callers : (cst[c] # "idle" /\ cst'[c] = "idle") => cst[c] = "acked"]_vars
  /\ [][\A c \in Callers :
          (cst[c] # "acked" /\ cst'[c] = "acked")
            => /\ c = cur
               /\ cst[c] = "await"
               /\ nAcked' = nAcked + 1
               /\ nAcked' = acceptNo[c]
               /\ got[c] = metricsCache]_vars
  /\ [][nAcked' # nAcked => cst'[cur] = "acked" /\ cst[cur] = "await"]_vars

C27_Witness ==
  /\ nAcked = 2
  /\ calls = 2
  /\ \E c, d \in Callers :
       /\ cst[d] = "idle"
       /\ cst[c] = "acked"
       /\ acceptNo[c] = 2
       /\ Len(got[c]) >= 2

(* The elements of a sequence. *)
ElementsOf(q) == {q[i] : i \in 1..Len(q)}

(* The entry into the namespace of the sandbox at hand fails; its handle   *)
(* cannot be opened.                                                       *)
EntryFails == wpc = "enter" /\ wpc' = "loop"
OpenFails == wpc = "loop" /\ wpc' = "loop" /\ idx' = idx + 1 /\ PodMatches(infos[idx])

(* The sandboxes the loop has passed without running the collection block. *)
PassedOver == {infos[j] : j \in 1..(idx - 1)} \ ElementsOf(blockLog)

(* C28: when the entry into a sandbox's namespace fails, the handle of the *)
(* sandbox is closed, the thread is and stays in the initial namespace and *)
(* the loop goes on with the next sandbox; when the handle cannot be       *)
(* opened the loop goes on likewise, with no handle open; in both cases    *)
(* the collection block is not run for the sandbox, then or later in the   *)
(* collection, and the collection has no sample of it.                     *)
C28_EntryFailureSkips ==
  /\ [][EntryFails =>
          /\ nsHandle = infos[idx]
          /\ nsHandle \notin openSb'
          /\ nsHandle' = None
          /\ curNS = InitNS
          /\ curNS' = InitNS
          /\ alive'
          /\ idx' = idx + 1
          /\ infos' = infos
          /\ infos[idx] \notin ElementsOf(blockLog')
          /\ UNCHANGED <<blockLog, emitted>>]_vars
  /\ [][OpenFails =>
          /\ openSb' = {}
          /\ nsHandle' = None
          /\ curNS' = InitNS
          /\ alive'
          /\ infos' = infos
          /\ infos[idx] \notin ElementsOf(blockLog')
          /\ UNCHANGED <<blockLog, emitted>>]_vars
  /\ [][(wpc \in {"loop", "enter", "block", "restore"} /\ infos' = infos)
          => \A p \in PassedOver : p \notin ElementsOf(blockLog')]_vars
  /\ [](wpc \in {"loop", "enter", "block", "restore", "ret"}
          => \A p \in PassedOver : p \notin PodsOf(emitted) \cup PodsOf(metricTemp))

(* The entry into the first sandbox has failed, the block has run for the  *)
(* second.                                                                 *)
C28_Witness ==
  /\ wpc = "restore"
  /\ Len(infos) = 2
  /\ idx = 2
  /\ infos[1] \in podFilter
  /\ blockLog = <<infos[2]>>
  /\ emitted # <<>>
  /\ curNS = NsOfPod(infos[2])

(* C29: no sandbox handle outlives the iteration that opened it: at the    *)
(* start of every iteration of the loop over the sandboxes, when           *)
(* CollectFromMainThread returns and wherever the worker is outside of it, *)
(* no sandbox handle is open and the worker holds none, whichever way the  *)
(* iterations before went (handle not opened, entry failed, block run and  *)
(* initial namespace restored).                                            *)
C29_NoHandleLeak ==
  wpc \in {"loop", "ret", "close", "install", "replay", "wait", "check", "cfmt", "list"}
    => (openSb = {} /\ nsHandle = None)

(* Two iterations are over, one with the block run and one without. *)
C29_Witness ==
  /\ wpc = "loop"
  /\ podFilter = Pods
  /\ Len(infos) = 2
  /\ idx = 3
  /\ Len(blockLog) = 1
  /\ openSb = {}

(* The worker is inside CollectFromMainThread, after netns.Get. *)
InCollection == wpc \in {"list", "loop", "enter", "block", "restore", "ret"}

(* C30, as stated: the handle to the initial namespace is opened once, in  *)
(* the first collection at the latest, and stays open from then on.        *)
C30_Original ==
  [][/\ origOpen => origOpen'
     /\ (~origOpen /\ origOpen') => nColl = 1]_vars

(* C30, amended: every collection opens its own handle to the namespace of *)
(* the thread, which is the initial one, when it starts, uses that handle  *)
(* for each of its restorations and closes it when it returns; between     *)
(* two collections the worker holds no such handle.                        *)
C30_HandlePerCollection ==
  /\ [](origOpen => (origns = InitNS /\ (InCollection \/ wpc = "exited")))
  /\ [](wpc \in {"wait", "check", "cfmt", "close", "install", "replay"}
          => (~origOpen /\ origns = None))
  /\ [][(~origOpen /\ origOpen') => (wpc = "cfmt" /\ curNS = InitNS /\ origns' = curNS)]_vars
  /\ [][(InCollection /\ wpc' # "close") => UNCHANGED <<origns, origOpen>>]_vars
  /\ [][(wpc = "restore" /\ wpc' = "loop") => (origOpen /\ curNS' = origns)]_vars
  /\ [][(origOpen /\ ~origOpen') => (wpc = "ret" /\ wpc' = "close")]_vars

(* The second collection restores the initial namespace through the handle *)
(* it opened.                                                              *)
C30_Witness ==
  /\ nColl = 2
  /\ wpc = "loop"
  /\ idx = 2
  /\ blockLog # <<>>
  /\ origOpen
  /\ origns = InitNS
  /\ curNS = InitNS

(* The positions of the host's block in the log of the collection. *)
HostRuns == {i \in 1..Len(blockLog) : blockLog[i] = HOST}

(* C31: with the collection of the host enabled, a collection that gets    *)
(* past its sandboxes runs the block exactly once more, after all of them, *)
(* for the HOST PodInfo, whatever the pod filter matches, and the thread   *)
(* is in the initial namespace while that block runs; with it disabled no  *)
(* block runs for HOST, and every block that runs finds the thread in the  *)
(* namespace of its sandbox.                                               *)
C31_HostBlock ==
  /\ wpc \in {"ret", "close", "install", "replay"} /\ served[cur] = "miss"
       => IF hostEnabled
            THEN HostRuns = {Len(blockLog)} /\ blockLog # <<>>
            ELSE HostRuns = {}
  /\ (wpc = "block" /\ blockPod = HOST)
       => /\ hostEnabled
          /\ idx > Len(infos)
          /\ curNS = InitNS
          /\ nsHandle = None
          /\ HostRuns = {Len(blockLog)}
          /\ \A i \in 1..Len(emitted) : emitted[i][2] = HOST => i > Len(emitted) - blockK
  /\ (wpc = "block" /\ blockPod # HOST)
       => (curNS = NsOfPod(blockPod) /\ curNS # InitNS /\ HostRuns = {})
  /\ ~hostEnabled => HostRuns = {}

(* The filter matches nothing, two sandboxes were passed over and the      *)
(* host's block has run and emitted its sample.                            *)
C31_Witness ==
  /\ wpc = "ret"
  /\ hostEnabled
  /\ podFilter = {}
  /\ Len(infos) = 2
  /\ blockLog = <<HOST>>
  /\ Len(emitted) = 1
  /\ emitted[1][2] = HOST
  /\ curNS = InitNS

(* What GetControllerForUid(uid) finds in a pod cache. *)
FoundByUid(cache, uid) == uid # EmptyUID /\ Has(cache, generatePodCacheKeyFromUID(uid))

(* The entries of a cache other than the one of pod uid, in their order. *)
OtherEntries(cache, uid) == SelectSeq(cache, LAMBDA e : e[1] # generatePodCacheKeyFromUID(uid))

(* C32: the handling of a pod-delete event leaves no entry of the pod in   *)
(* pod-to-ref, so that a lookup by its UID finds nothing; the entries of   *)
(* the other pods and the whole of owner-to-ref stay as they were; when    *)
(* the pod has no entry nothing changes.                                   *)
C32_DeleteEvicts ==
  [][\A uid \in InformerPods :
       DeleteFunc(uid)
         => /\ ~FoundByUid(podCache', uid)
            /\ OtherEntries(podCache', uid) = OtherEntries(podCache, uid)
            /\ parentCache' = parentCache
            /\ ~FoundByUid(podCache, uid) => podCache' = podCache]_vars

(* A delete event has evicted one of two cached pods, with owner-to-ref    *)
(* holding an entry.                                                       *)
C32_Witness ==
  /\ lastOp.op = "delete"
  /\ Len(podCache) = 1
  /\ FoundByUid(podCache, 2)
  /\ ~FoundByUid(podCache, 1)
  /\ parentCache # <<>>

(* The phases other than Running and Pending. *)
OtherPhases == Phases \ {"Running", "Pending"}

(* C33: a pod-add or pod-update event of a pod whose phase is neither      *)
(* Running nor Pending is ignored: the handler returns without calling the *)
(* resolution, so that nothing is fetched, and both caches are as before.  *)
C33_PhaseIgnored ==
  [][\A phase \in OtherPhases, oldNode \in NodeNames, node \in NodeNames, sameVersion \in BOOLEAN :
       (AddFunc(phase, node) \/ UpdateFunc(phase, oldNode, node, sameVersion))
         => /\ rpc' = "idle"
            /\ ~lastOp'.resolve
            /\ UNCHANGED <<podCache, parentCache>>]_vars

(* An add event of a pod of the configured node was ignored, which only    *)
(* the phase of the pod explains, with both caches populated.              *)
C33_Witness ==
  /\ lastOp.op = "add"
  /\ ropts.Nodename = "node-a"
  /\ lastOp.node = "node-a"
  /\ ~lastOp.resolve
  /\ rpc = "idle"
  /\ podCache # <<>>
  /\ parentCache # <<>>

(* The key of owner-to-ref that the resolution of a pod with the given     *)
(* owner references reads.                                                 *)
OwnerKeyOf(orefs) == generateCacheKey(PodNamespace, getControllerOwnerReference(orefs))

(* The resolutions the model makes of a pod a ReplicaSet or a Job owns. *)
FetchingLists ==
  {orefs \in InformerOwnerRefLists :
     Len(orefs) > 0 /\ getControllerOwnerReference(orefs).Kind \in {"ReplicaSet", "Job"}}

(* C34: when the fetch of the ReplicaSet or Job of a pod's owner fails,    *)
(* resolve returns an error and no reference, both caches are as before,   *)
(* with no entry for the pod or for its owner, and a resolve of the same   *)
(* pod made next goes to the fetch again.                                  *)
C34_NoPoison ==
  [][\A uid \in InformerPods, orefs \in InformerOwnerRefLists :
       (lastOp'.op = "resolve" /\ ~lastOp'.ok /\ ResolvePodControllerRef(uid, orefs))
         => /\ lastOp'.res = NoRef
            /\ lastOp'.via = "fetch"
            /\ orefs \in FetchingLists
            /\ UNCHANGED <<podCache, parentCache>>
            /\ ~FoundByUid(podCache', uid)
            /\ ~Has(parentCache', OwnerKeyOf(orefs))
            /\ \A fetched \in BOOLEAN : (Resolution(uid, orefs, fetched).via = "fetch")']_vars

(* A resolve has failed on its fetch while both caches held entries of     *)
(* other pods and owners.                                                  *)
C34_Witness ==
  /\ rkind = "active"
  /\ lastOp.op = "resolve"
  /\ ~lastOp.ok
  /\ lastOp.via = "fetch"
  /\ podCache # <<>>
  /\ parentCache # <<>>

(* The pod is assigned to a node whose events are not filtered out: to the *)
(* configured node, or to any node when no node name is configured.        *)
NodeMatching(node) == node # "" /\ (ropts.Nodename = "" \/ node = ropts.Nodename)

(* C35, as stated: the add of a Running or Pending pod of a matching node, *)
(* and the update that assigns such a pod to a matching node, invoke the   *)
(* resolution, which leaves an entry of the pod in pod-to-ref; an update   *)
(* of a pod that was assigned already, or whose resource version has not   *)
(* changed, does not invoke it.                                            *)
C35_AssignedResolved ==
  [][/\ \A phase \in {"Running", "Pending"}, oldNode \in NodeNames, node \in NodeNames,
          sameVersion \in BOOLEAN :
          /\ (AddFunc(phase, node) /\ NodeMatching(node)) => rpc' = "handler"
          /\ (UpdateFunc(phase, oldNode, node, sameVersion)
                /\ oldNode = "" /\ NodeMatching(node) /\ ~sameVersion) => rpc' = "handler"
     /\ \A phase \in Phases, oldNode \in NodeNames, node \in NodeNames, sameVersion \in BOOLEAN :
          (UpdateFunc(phase, oldNode, node, sameVersion) /\ (oldNode # "" \/ sameVersion))
            => rpc' = "idle"
     /\ \A uid \in InformerPods, orefs \in InformerOwnerRefLists :
          (rpc = "handler" /\ ResolvePodControllerRef(uid, orefs))
            => FoundByUid(podCache', uid)]_vars

(* The fields of a line of a socket table, its comment stripped. *)
SockFields(line) == Fields(StripComment(line))

(* The table has, after its title, a line of fewer than twelve fields. *)
HasShortLine(table) == \E i \in 2..Len(table) : Len(SockFields(table[i])) < 12

(* The samples of a protocol among those sent. *)
SockSamplesOf(socktype) == {m \in sockOut : m[1] = socktype}

(* The state a well-formed line counts under, and the samples of a family  *)
(* whose table holds well-formed lines only.                               *)
StateOfLine(line) == skStates[ParseUint(SockFields(line)[4]) + 1]

FamilySamples(socktype, table, ipversion) ==
  {<<socktype, StateOfLine(table[i]),
     Cardinality({j \in 2..Len(table) : StateOfLine(table[j]) = StateOfLine(table[i])}),
     ipversion>> : i \in 2..Len(table)}

(* C36: a line of fewer than twelve fields after the stripping of its      *)
(* comment (a blank line and a comment alone are such lines) ends the read *)
(* of the table with an error and without a tally, whatever was counted    *)
(* before it; a protocol with such a line in one of the tables read for it *)
(* has no sample sent; the protocols of the list whose two tables were     *)
(* read are sent in full, and so are the snmp and netstat families.        *)
C36_ShortLineHardError ==
  /\ [][(ppc = "socktab" /\ ppos <= Len(plines) /\ Len(SockFields(plines[ppos])) < 12)
          => (ppc' = "failed" /\ pout'.err)]_vars
  /\ [][(SocktabError /\ Len(SockFields(plines[ppos])) < 12)
          => (pout'.err /\ pout'.counters = <<>>)]_vars
  /\ [](\A p \in DOMAIN sockLog :
          /\ sockLog[p].r4 = "ok" => ~HasShortLine(sockLog[p].t4)
          /\ sockLog[p].r6 = "ok" => ~HasShortLine(sockLog[p].t6)
          /\ (HasShortLine(sockLog[p].t4) \/ HasShortLine(sockLog[p].t6))
               => SockSamplesOf(p) = {})
  /\ [](spc = "returned"
          => /\ ProcNetSamples \subseteq sockOut
             /\ DOMAIN sockLog = sockprotoToCollect
             /\ \A q \in sockprotoToCollect :
                  (sockLog[q].r4 = "ok" /\ sockLog[q].r6 = "ok")
                    => SockSamplesOf(q) = FamilySamples(q, sockLog[q].t4, "ipv4")
                                            \cup FamilySamples(q, sockLog[q].t6, "ipv6"))

(* The block has returned: the IPv4 table of tcp had a socket counted and  *)
(* then a line of eleven fields, and tcp has no sample; udp, whose tables  *)
(* were read, has its samples, and snmp and netstat have theirs.           *)
C36_Witness ==
  /\ spc = "returned"
  /\ sockprotoToCollect = {"tcp", "udp"}
  /\ sockLog["tcp"].t4
       = <<SockTitle, SockLine(<<"0", "A">>, "full"), SockLine(<<"0", "A">>, "short")>>
  /\ sockLog["tcp"].r4 = "err"
  /\ SockSamplesOf("tcp") = {}
  /\ sockLog["udp"].r6 = "ok"
  /\ <<"udp", "LISTEN", 2, "ipv4">> \in sockOut
  /\ ProcNetSamples \subseteq sockOut

(* The place of a protocol in the loop, and whether the loop is past it. *)
PlaceOf(socktype) == CHOOSE i \in 1..Len(SockProtoOrder) : SockProtoOrder[i] = socktype

Finished(socktype) == sockproto > PlaceOf(socktype)

(* C37: a sample of the IPv4 family of a protocol is sent only when both   *)
(* tables of the protocol were read without error; when the read of the    *)
(* IPv6 table fails nothing is sent for the protocol, whatever the IPv4    *)
(* tally holds; once the protocol is done, what was sent for it is either  *)
(* nothing or all the samples of both tallies.                             *)
C37_BothFamiliesOrNothing ==
  \A p \in DOMAIN sockLog :
    /\ (\E m \in SockSamplesOf(p) : m[4] = "ipv4")
         => (sockLog[p].r4 = "ok" /\ sockLog[p].r6 = "ok")
    /\ sockLog[p].r6 = "err" => (sockLog[p].r4 = "ok" /\ SockSamplesOf(p) = {})
    /\ Finished(p)
         => IF sockLog[p].r4 = "ok" /\ sockLog[p].r6 = "ok"
              THEN SockSamplesOf(p) = FamilySamples(p, sockLog[p].t4, "ipv4")
                                        \cup FamilySamples(p, sockLog[p].t6, "ipv6")
              ELSE SockSamplesOf(p) = {}

(* The IPv4 table of tcp, with two listening sockets, was read; the read   *)
(* of its IPv6 table has failed and the call has returned: nothing was     *)
(* sent for tcp.                                                           *)
C37_Witness ==
  /\ "tcp" \in DOMAIN sockLog
  /\ Finished("tcp")
  /\ sockLog["tcp"].t4
       = <<SockTitle, SockLine(<<"0", "A">>, "full"), SockLine(<<"0", "A">>, "full")>>
  /\ sockLog["tcp"].r4 = "ok"
  /\ statsv4 # <<>>
  /\ sockLog["tcp"].r6 = "err"
  /\ SockSamplesOf("tcp") = {}

(* C38, as stated: when a removal of a pod has completed while a           *)
(* resolution of the same pod was between its lookup and its store, and no *)
(* resolution of the pod has started since, the store of that resolution   *)
(* leaves no entry of the pod in pod-to-ref.                               *)
C38_EvictionStands ==
  [][(ResolveStore /\ inflight.removed) => ~FoundByUid(podCache', inflight.uid)]_vars

(* C39: the worker goroutine is wired to its thread from the LockOSThread  *)
(* of main on: the count of its locks is one in the loop of main, two      *)
(* inside CollectFromMainThread and never zero, however many collections   *)
(* have run; it is only ever changed by the pair of CollectFromMainThread. *)
C39_ThreadLocked ==
  /\ [](lockCount >= 1)
  /\ [](wpc \in {"wait", "check", "cfmt", "close", "install", "replay"} => lockCount = 1)
  /\ [](InCollection => lockCount = 2)
  /\ [][lockCount' # lockCount
          => \/ (wpc = "cfmt" /\ wpc' = "list" /\ lockCount' = lockCount + 1)
             \/ (wpc = "ret" /\ wpc' = "close" /\ lockCount' = lockCount - 1)]_vars

(* Two collections have returned and the worker is back in its loop. *)
C39_Witness ==
  /\ nColl = 2
  /\ nInstalled = 2
  /\ wpc = "wait"
  /\ lockCount = 1

(* C40: with callers that drain their sinks, under fair scheduling, every  *)
(* Collect call returns unless the process ends on a fatal error: a caller *)
(* that has called Collect is eventually back from it, and the worker that *)
(* holds a request is eventually back at its receive.                      *)
C40_CollectReturns ==
  /\ \A c \in Callers : (cst[c] \in {"send", "await", "acked"}) ~> (cst[c] = "idle" \/ ~alive)
  /\ (wpc # "wait") ~> (wpc = "wait" \/ ~alive)

(* Both callers are in Collect at once, one blocked in its send while a    *)
(* collection for the other is in a sandbox's namespace.                   *)
C40_Witness ==
  /\ alive
  /\ nColl = 1
  /\ blockPod # HOST
  /\ wpc = "block"
  /\ \E c \in Callers : cst[c] = "send"
  /\ \E c \in Callers : cst[c] = "await" /\ served[c] = "miss"

====
